---- MODULE Spec2Model ----
(***************************************************************************)
(* Proxy route handlers of the alpha-research dashboard.                   *)
(*                                                                         *)
(* Every handler is an async function: it reads the browser's request,     *)
(* may return early, issues one fetch to the backend, suspends until the   *)
(* fetch settles (a rejection or a backend response) and builds the        *)
(* response for the browser.                                               *)
(*                                                                         *)
(* JavaScript strings are sequences of tokens (a token is an atomic piece  *)
(* of text); JavaScript values are tagged records.                         *)
(***************************************************************************)
EXTENDS Integers, Sequences, FiniteSets, TLC

(* ------------------------------------------------------------------ *)
(* JavaScript / JSON values                                            *)
(* ------------------------------------------------------------------ *)
Undef == [t |-> "undefined"]
Null == [t |-> "null"]
Str(s) == [t |-> "string", s |-> s]
Num(n) == [t |-> "number", n |-> n]
Obj(f) == [t |-> "object", f |-> f]
Arr(a) == [t |-> "array", a |-> a]
Bool(b) == [t |-> "boolean", b |-> b]

\* A one-token string literal.
Lit(x) == Str(<<x>>)

\* JavaScript truthiness (the operand of !, || and if).
Truthy(v) ==
    CASE v.t = "undefined" -> FALSE
      [] v.t = "null" -> FALSE
      [] v.t = "string" -> v.s # <<>>
      [] v.t = "number" -> v.n # 0
      [] v.t = "boolean" -> v.b
      [] OTHER -> TRUE

\* a || b
OrElse(a, b) == IF Truthy(a) THEN a ELSE b

\* typeof v === 'object' (true of null as well, as in JavaScript).
TypeofObject(v) == v.t \in {"object", "array", "null"}

\* v.k for a value v that is neither null nor undefined.
Prop(v, k) == IF v.t = "object" /\ k \in DOMAIN v.f THEN v.f[k] ELSE Undef

\* v.k throws a TypeError when v is null or undefined.
PropThrows(v) == v.t \in {"null", "undefined"}

\* String(v) / template-literal interpolation of v.
ToStr(v) ==
    CASE v.t = "string" -> v.s
      [] v.t = "undefined" -> <<"undefined">>
      [] v.t = "null" -> <<"null">>
      [] v.t = "number" -> <<ToString(v.n)>>
      [] v.t = "boolean" -> IF v.b THEN <<"true">> ELSE <<"false">>
      [] OTHER -> <<"[object Object]">>

\* JSON.stringify of an object: members whose value is undefined are left out.
Stringify(v) ==
    IF v.t = "object"
    THEN Obj([k \in {x \in DOMAIN v.f : v.f[x] # Undef} |-> v.f[k]])
    ELSE v

(* ------------------------------------------------------------------ *)
(* HTTP bodies                                                         *)
(* ------------------------------------------------------------------ *)
\* A body is its text: either text that parses as JSON to the value v, or
\* other text s (the empty text included).
JsonBody(v) == [k |-> "json", v |-> v]
TextBody(s) == [k |-> "text", s |-> s]
EmptyBody == TextBody(<<>>)

\* response.json() / request.json(): rejects on text that is not JSON.
JsonThrows(b) == b.k # "json"
Json(b) == b.v

\* response.ok
Ok(status) == status >= 200 /\ status <= 299

(* ------------------------------------------------------------------ *)
(* Responses to the browser                                            *)
(* ------------------------------------------------------------------ *)
\* NextResponse.json(v, {status}): a JSON body, Content-Type application/json.
NextResponseJson(v, status) ==
    [status |-> status, ctype |-> "application/json", body |-> JsonBody(Stringify(v))]

\* new NextResponse(text, {status}): a string body is sent as text/plain.
NextResponseText(s, status) ==
    [status |-> status, ctype |-> "text/plain", body |-> TextBody(s)]

\* new NextResponse(body, {headers: {'Content-Type': 'text/html'}}): status 200.
NextResponseHtml(b) == [status |-> 200, ctype |-> "text/html", body |-> b]

\* What running a piece of a handler's code yields: a response, or an exception.
Returned(r) == [threw |-> FALSE, r |-> r]
Threw == [threw |-> TRUE]

\* The statuses that admit no body: constructing a Response with a body and
\* one of them throws a TypeError.
NullBodyStatus(status) == status \in {204, 205, 304}

\* return NextResponse.json(v, {status})
ReturnJson(v, status) ==
    IF NullBodyStatus(status) THEN Threw ELSE Returned(NextResponseJson(v, status))

\* return new NextResponse(text, {status})
ReturnText(s, status) ==
    IF NullBodyStatus(status) THEN Threw ELSE Returned(NextResponseText(s, status))

\* Variant: no catch block, the exception leaves the handler.
TryWithoutCatch(res, c) == res

\* try { ... } catch (error) { return c }
TryCatch(res, c) == IF res.threw THEN Returned(c) ELSE res

(* ------------------------------------------------------------------ *)
(* Outcome of the outbound fetch                                       *)
(* ------------------------------------------------------------------ *)
NoAnswer == [k |-> "none"]
Rejected == [k |-> "reject"]
Responded(status, body) == [k |-> "response", status |-> status, body |-> body]

(* ------------------------------------------------------------------ *)
(* Backend address                                                     *)
(* ------------------------------------------------------------------ *)
\* process.env.API_HOST || 'localhost'
ApiHost(env) == ToStr(OrElse(env.API_HOST, Lit("localhost")))

\* process.env.API_PORT || '8000'
ApiPort(env) == ToStr(OrElse(env.API_PORT, Lit("8000")))

\* The port written into the URL by the handlers that do not read API_PORT.
FixedPort == <<"8001">>

NoBody == [k |-> "none"]
Outbound(method, host, port, path, body) ==
    [method |-> method, host |-> host, port |-> port, path |-> path, body |-> body]

(* ------------------------------------------------------------------ *)
(* Text of a captured standard-error stream                            *)
(* ------------------------------------------------------------------ *)
MNFE == "ModuleNotFoundError"
NMN == "No module named '"
Quote == "'"
Dot == "."

\* The tokens made of word characters only (\w).
WordTokens == {MNFE, "apscheduler", "Traceback"}
StderrTokens == {MNFE, "apscheduler", NMN, Quote, Dot}

\* stderr.includes('ModuleNotFoundError')
Includes(s, tok) == \E i \in 1..Len(s) : s[i] = tok

\* /No module named '(\w+)'/ matches at position i with a capture of k tokens.
MatchesAt(s, i, k) ==
    /\ i >= 1 /\ k >= 1 /\ i + k + 1 <= Len(s)
    /\ s[i] = NMN
    /\ \A j \in 1..k : s[i + j] \in WordTokens
    /\ s[i + k + 1] = Quote

HasMatch(s) == \E i \in 1..Len(s) : \E k \in 1..Len(s) : MatchesAt(s, i, k)

\* Variant: the capture of the rightmost match.
ModuleNameLast(s) ==
    IF HasMatch(s)
    THEN LET i == CHOOSE x \in 1..Len(s) :
                    /\ \E k \in 1..Len(s) : MatchesAt(s, x, k)
                    /\ \A y \in (x + 1)..Len(s) : ~ \E k \in 1..Len(s) : MatchesAt(s, y, k)
             k == CHOOSE x \in 1..Len(s) : MatchesAt(s, i, x)
         IN  Str(SubSeq(s, i + 1, i + k))
    ELSE Undef

\* stderr.match(/No module named '(\w+)'/)?.[1]: the capture of the leftmost
\* match, undefined when there is none.
ModuleName(s) ==
    IF HasMatch(s)
    THEN LET i == CHOOSE x \in 1..Len(s) :
                    /\ \E k \in 1..Len(s) : MatchesAt(s, x, k)
                    /\ \A y \in 1..(x - 1) : ~ \E k \in 1..Len(s) : MatchesAt(s, y, k)
             k == CHOOSE x \in 1..Len(s) : MatchesAt(s, i, x)
         IN  Str(SubSeq(s, i + 1, i + k))
    ELSE Undef

(* ------------------------------------------------------------------ *)
(* wechat-generate-proxy: the error message built from error.detail    *)
(* ------------------------------------------------------------------ *)
DefaultGenerateMessage == Lit("Failed to generate paper")

\* stderr && stderr.includes('ModuleNotFoundError'): includes exists on
\* strings and arrays only.
StderrTestThrows(stderr) == Truthy(stderr) /\ stderr.t \notin {"string", "array"}
StderrTest(stderr) ==
    /\ Truthy(stderr)
    /\ \/ stderr.t = "string" /\ Includes(stderr.s, MNFE)
       \/ stderr.t = "array" /\ \E i \in 1..Len(stderr.a) : stderr.a[i] = Lit(MNFE)

MissingDependency(name) ==
    Str(<<"Missing Python dependency: ">> \o ToStr(name)
        \o <<". Please install it in research-tracker.">>)

WithTraceId(msg, traceId) ==
    Str(ToStr(msg) \o <<" (Trace ID: ">> \o ToStr(traceId) \o <<")">>)

\* The statements between "let errorMessage" and the return throw.
ErrorMessageThrows(detail) ==
    /\ Truthy(detail)
    /\ TypeofObject(detail)
    /\ LET stderr == Prop(detail, "stderr")
       IN  \/ StderrTestThrows(stderr)
           \/ StderrTest(stderr) /\ stderr.t # "string"

\* Variant: the trace id is looked at before stderr, so it is appended even
\* when a dependency is missing.
ErrorMessageTraceFirst(detail) ==
    IF ~Truthy(detail) THEN DefaultGenerateMessage
    ELSE IF ~TypeofObject(detail) THEN detail
    ELSE LET base == OrElse(Prop(detail, "error"), DefaultGenerateMessage)
             traceId == Prop(detail, "trace_id")
             stderr == Prop(detail, "stderr")
         IN  IF Truthy(traceId) THEN WithTraceId(base, traceId)
             ELSE IF StderrTest(stderr) THEN MissingDependency(ModuleName(stderr.s))
             ELSE base

\* Variant: a detail that is no object is not used.
ErrorMessageObjectOnly(detail) ==
    IF ~Truthy(detail) \/ ~TypeofObject(detail) THEN DefaultGenerateMessage
    ELSE LET base == OrElse(Prop(detail, "error"), DefaultGenerateMessage)
             traceId == Prop(detail, "trace_id")
             stderr == Prop(detail, "stderr")
         IN  IF StderrTest(stderr) THEN MissingDependency(ModuleName(stderr.s))
             ELSE IF Truthy(traceId) THEN WithTraceId(base, traceId)
             ELSE base

ErrorMessage(detail) ==
    IF ~Truthy(detail) THEN DefaultGenerateMessage
    ELSE IF ~TypeofObject(detail) THEN detail
    ELSE LET base == OrElse(Prop(detail, "error"), DefaultGenerateMessage)
             traceId == Prop(detail, "trace_id")
             stderr == Prop(detail, "stderr")
         IN  IF StderrTest(stderr) THEN MissingDependency(ModuleName(stderr.s))
             ELSE IF Truthy(traceId) THEN WithTraceId(base, traceId)
             ELSE base

(* ------------------------------------------------------------------ *)
(* The handlers.  For a handler X:                                     *)
(*   XEarly(rq)     what it returns before any fetch (Proceed if none) *)
(*   XFetch(rq,env) the outbound request it issues                     *)
(*   XSettle(a)     what it returns once the fetch has settled as a    *)
(* ------------------------------------------------------------------ *)
Proceed == [early |-> FALSE]
Early(res) == [early |-> TRUE, res |-> res]

ErrorBody(msg) == Obj([error |-> Lit(msg)])
InternalServerError == NextResponseJson(ErrorBody("Internal server error"), 500)

\* Variant: only an absent parameter (null) is refused, an empty one passes.
FilenameRequiredNullOnly(rq) ==
    IF rq.param = Null
    THEN Early(Returned(NextResponseJson(ErrorBody("Filename parameter is required"), 400)))
    ELSE Proceed

\* if (!filename) return 400
FilenameRequired(rq) ==
    IF ~Truthy(rq.param)
    THEN Early(Returned(NextResponseJson(ErrorBody("Filename parameter is required"), 400)))
    ELSE Proceed

\* Variant: the { status: response.status } option is left out on !response.ok.
RelayJsonDropsStatus(a, failMsg) ==
    TryCatch(IF a.k = "reject" THEN Threw
             ELSE IF ~Ok(a.status) THEN ReturnJson(ErrorBody(failMsg), 200)
             ELSE IF JsonThrows(a.body) THEN Threw
             ELSE ReturnJson(Json(a.body), 200),
             InternalServerError)

\* The shape shared by the JSON-relaying GET/DELETE handlers: a fixed message
\* with the backend's status on !response.ok, the parsed body with status 200
\* otherwise, and the catch block's response on any exception.
RelayJson(a, failMsg) ==
    TryCatch(IF a.k = "reject" THEN Threw
             ELSE IF ~Ok(a.status)
                  THEN ReturnJson(ErrorBody(failMsg), a.status)
             ELSE IF JsonThrows(a.body) THEN Threw
             ELSE ReturnJson(Json(a.body), 200),
             InternalServerError)

\* ---- wechat-article-proxy (GET ?filename=) ----
ArticleEarly(rq) == FilenameRequired(rq)
ArticleFetch(rq, env) ==
    Outbound("GET", ApiHost(env), FixedPort,
             <<"/api/research/wechat/">> \o ToStr(rq.param), NoBody)
\* Variant: response.ok is not looked at.
ArticleSettleIgnoresOk(a) ==
    TryCatch(IF a.k = "reject" THEN Threw ELSE Returned(NextResponseHtml(a.body)),
             NextResponseText(<<"Internal server error">>, 500))

\* Variant: the backend's status is forwarded with the article.
ArticleSettleForwardsStatus(a) ==
    TryCatch(IF a.k = "reject" THEN Threw
             ELSE IF ~Ok(a.status) THEN ReturnText(<<"Article not found">>, a.status)
             ELSE IF NullBodyStatus(a.status) THEN Threw
             ELSE Returned([NextResponseHtml(a.body) EXCEPT !.status = a.status]),
             NextResponseText(<<"Internal server error">>, 500))

ArticleSettle(a) ==
    TryCatch(IF a.k = "reject" THEN Threw
             ELSE IF ~Ok(a.status)
                  THEN ReturnText(<<"Article not found">>, a.status)
             ELSE Returned(NextResponseHtml(a.body)),
             NextResponseText(<<"Internal server error">>, 500))

\* ---- papers proxy (GET ?limit=) ----
PapersFetch(rq, env) ==
    Outbound("GET", ApiHost(env), FixedPort,
             <<"/api/research/papers?limit=">> \o ToStr(OrElse(rq.param, Lit("50"))),
             NoBody)
PapersSettle(a) == RelayJson(a, "Failed to fetch papers")

\* ---- wechat-list-proxy (GET) ----
ListFetch(rq, env) ==
    Outbound("GET", ApiHost(env), FixedPort, <<"/api/research/wechat/list">>, NoBody)
\* Variant: the articles array is unwrapped from the backend's object.
ListSettleUnwraps(a) ==
    TryCatch(IF a.k = "reject" THEN Threw
             ELSE IF ~Ok(a.status)
                  THEN ReturnJson(ErrorBody("Failed to fetch WeChat articles list"), a.status)
             ELSE IF JsonThrows(a.body) \/ PropThrows(Json(a.body)) THEN Threw
             ELSE ReturnJson(Prop(Json(a.body), "articles"), 200),
             InternalServerError)

ListSettle(a) == RelayJson(a, "Failed to fetch WeChat articles list")

\* ---- wechat-delete-proxy (DELETE ?filename=) ----
DeleteEarly(rq) == FilenameRequired(rq)
\* Variant: the method option is left out, fetch then sends a GET.
DeleteFetchDefaultMethod(rq, env) ==
    Outbound("GET", ApiHost(env), FixedPort,
             <<"/api/research/wechat/">> \o ToStr(rq.param), NoBody)

DeleteFetch(rq, env) ==
    Outbound("DELETE", ApiHost(env), FixedPort,
             <<"/api/research/wechat/">> \o ToStr(rq.param), NoBody)
DeleteSettle(a) == RelayJson(a, "Failed to delete article")

\* ---- market-proxy (GET ?symbols=) ----
MarketFetch(rq, env) ==
    Outbound("GET", ApiHost(env), FixedPort,
             <<"/api/market/quotes?symbols=">>
                 \o ToStr(OrElse(rq.param, Lit("NVDA,MSFT,GOOGL,TSLA,AAPL"))),
             NoBody)
MarketSettle(a) == RelayJson(a, "Failed to fetch market data")

\* ---- theme-search-proxy (POST, JSON body) ----
\* String(error) of the exceptions a handler can meet: fetch rejecting,
\* JSON text that does not parse, a Response built with a null-body status.
FetchFailed == "TypeError: fetch failed"
NotJson == "SyntaxError: Unexpected token"
InvalidStatus == "TypeError: Response with null body status cannot have body"

\* catch (error): detail is String(error).
ThemeCatch(error) ==
    NextResponseJson(Obj([success |-> Bool(FALSE),
                          error |-> Lit("Failed to connect to backend API"),
                          detail |-> Lit(error)]), 500)
\* The exception met while the fetch settles as a.
ThemeError(a) ==
    IF a.k = "reject" THEN FetchFailed
    ELSE IF JsonThrows(a.body) THEN NotJson
    ELSE InvalidStatus
ThemeEarly(rq) ==
    IF JsonThrows(rq.body) THEN Early(TryCatch(Threw, ThemeCatch(NotJson))) ELSE Proceed
ThemeFetch(rq, env) ==
    Outbound("POST", ApiHost(env), ApiPort(env), <<"/api/research/search/theme">>,
             JsonBody(Stringify(Json(rq.body))))
\* Variant: the backend's body is returned without its status.
ThemeSettleStatus200(a) ==
    TryCatch(IF a.k = "reject" THEN Threw
             ELSE IF JsonThrows(a.body) THEN Threw
             ELSE ReturnJson(Json(a.body), 200),
             ThemeCatch(ThemeError(a)))

ThemeSettle(a) ==
    TryCatch(IF a.k = "reject" THEN Threw
             ELSE IF JsonThrows(a.body) THEN Threw
             ELSE ReturnJson(Json(a.body), a.status),
             ThemeCatch(ThemeError(a)))

\* The shape shared by the create proxy and the earlier generate proxy:
\* { error: error.detail || fallback } with the backend's status.
RelayDetail(a, fallback) ==
    TryCatch(IF a.k = "reject" THEN Threw
             ELSE IF JsonThrows(a.body) THEN Threw
             ELSE IF ~Ok(a.status)
                  THEN IF PropThrows(Json(a.body)) THEN Threw
                       ELSE ReturnJson(
                                Obj([error |-> OrElse(Prop(Json(a.body), "detail"),
                                                      Lit(fallback))]),
                                a.status)
             ELSE ReturnJson(Json(a.body), 200),
             InternalServerError)

\* ---- wechat-create-proxy (POST, JSON body) ----
\* Variant: a body that is no JSON is refused with 400.
CreateEarlyBadRequest(rq) ==
    IF JsonThrows(rq.body)
    THEN Early(Returned(NextResponseJson(ErrorBody("Invalid JSON body"), 400)))
    ELSE Proceed

CreateEarly(rq) ==
    IF JsonThrows(rq.body) THEN Early(TryCatch(Threw, InternalServerError)) ELSE Proceed
CreateFetch(rq, env) ==
    Outbound("POST", ApiHost(env), FixedPort, <<"/api/research/wechat/create">>,
             JsonBody(Stringify(Json(rq.body))))
CreateSettle(a) == RelayDetail(a, "Failed to create article")

\* ---- generate proxy, earlier version (POST) ----
GenerateV1Fetch(rq, env) ==
    Outbound("POST", ApiHost(env), FixedPort, <<"/api/research/wechat/generate">>, NoBody)
GenerateV1Settle(a) == RelayDetail(a, "Failed to generate paper")

\* ---- wechat-generate-proxy (POST) ----
GenerateCatch ==
    NextResponseJson(
        ErrorBody("Failed to connect to API server. Please ensure the backend is running."),
        500)
GenerateFetch(rq, env) ==
    Outbound("POST", ApiHost(env), ApiPort(env), <<"/api/research/wechat/generate">>,
             NoBody)
\* Variant: the catch block of the earlier version of the generate proxy.
GenerateSettleOldCatch(a) ==
    IF a.k = "reject" THEN Returned(InternalServerError) ELSE GenerateV1Settle(a)

\* Variant: the body carries the message alone, as in the earlier version.
GenerateSettleMessageOnly(a) ==
    TryCatch(IF a.k = "reject" THEN Threw
             ELSE IF JsonThrows(a.body) THEN Threw
             ELSE IF ~Ok(a.status)
                  THEN IF PropThrows(Json(a.body)) THEN Threw
                       ELSE LET detail == Prop(Json(a.body), "detail")
                            IN  IF ErrorMessageThrows(detail) THEN Threw
                                ELSE ReturnJson(Obj([error |-> ErrorMessage(detail)]),
                                                a.status)
             ELSE ReturnJson(Json(a.body), 200),
             GenerateCatch)

GenerateSettle(a) ==
    TryCatch(IF a.k = "reject" THEN Threw
             ELSE IF JsonThrows(a.body) THEN Threw
             ELSE IF ~Ok(a.status)
                  THEN IF PropThrows(Json(a.body)) THEN Threw
                       ELSE LET detail == Prop(Json(a.body), "detail")
                            IN  IF ErrorMessageThrows(detail) THEN Threw
                                ELSE ReturnJson(
                                         Obj([error |-> ErrorMessage(detail),
                                              detail |-> detail,
                                              status |-> Num(a.status)]),
                                         a.status)
             ELSE ReturnJson(Json(a.body), 200),
             GenerateCatch)

(* ------------------------------------------------------------------ *)
(* Dispatch by route                                                   *)
(* ------------------------------------------------------------------ *)
Handlers ==
    {"wechat-article-proxy", "papers-proxy", "wechat-list-proxy", "wechat-delete-proxy",
     "market-proxy", "theme-search-proxy", "wechat-create-proxy", "generate-proxy-v1",
     "wechat-generate-proxy"}

HandlerEarly(rq) ==
    CASE rq.h = "wechat-article-proxy" -> ArticleEarly(rq)
      [] rq.h = "wechat-delete-proxy" -> DeleteEarly(rq)
      [] rq.h = "theme-search-proxy" -> ThemeEarly(rq)
      [] rq.h = "wechat-create-proxy" -> CreateEarly(rq)
      [] OTHER -> Proceed

HandlerFetch(rq, e) ==
    CASE rq.h = "wechat-article-proxy" -> ArticleFetch(rq, e)
      [] rq.h = "papers-proxy" -> PapersFetch(rq, e)
      [] rq.h = "wechat-list-proxy" -> ListFetch(rq, e)
      [] rq.h = "wechat-delete-proxy" -> DeleteFetch(rq, e)
      [] rq.h = "market-proxy" -> MarketFetch(rq, e)
      [] rq.h = "theme-search-proxy" -> ThemeFetch(rq, e)
      [] rq.h = "wechat-create-proxy" -> CreateFetch(rq, e)
      [] rq.h = "generate-proxy-v1" -> GenerateV1Fetch(rq, e)
      [] rq.h = "wechat-generate-proxy" -> GenerateFetch(rq, e)

HandlerSettle(rq, a) ==
    CASE rq.h = "wechat-article-proxy" -> ArticleSettle(a)
      [] rq.h = "papers-proxy" -> PapersSettle(a)
      [] rq.h = "wechat-list-proxy" -> ListSettle(a)
      [] rq.h = "wechat-delete-proxy" -> DeleteSettle(a)
      [] rq.h = "market-proxy" -> MarketSettle(a)
      [] rq.h = "theme-search-proxy" -> ThemeSettle(a)
      [] rq.h = "wechat-create-proxy" -> CreateSettle(a)
      [] rq.h = "generate-proxy-v1" -> GenerateV1Settle(a)
      [] rq.h = "wechat-generate-proxy" -> GenerateSettle(a)

(* ------------------------------------------------------------------ *)
(* Inputs: browser requests, environments, backend answers             *)
(* ------------------------------------------------------------------ *)
MaxPieces == 3
MaxArticles == 2

Request(h, param, body) == [h |-> h, param |-> param, body |-> body]
NoRequest == [h |-> "none"]

\* searchParams.get(name) is null when the parameter is absent.
Filenames ==
    {Null, Str(<<>>), Lit("wechat_20251212.html"), Str(<<"../", "secret">>),
     Str(<<"wechat_20251212.html", "?", "force=1">>),
     Str(<<"a", "/", "../", "../", "../", "papers", "#", "x">>)}
BrowserBodies ==
    {TextBody(<<"not json">>), EmptyBody, JsonBody(Null),
     JsonBody(Obj([theme |-> Lit("ai agents")]))}

Requests ==
    {Request(h, f, NoBody) : h \in {"wechat-article-proxy", "wechat-delete-proxy"},
                             f \in Filenames}
    \cup {Request("papers-proxy", l, NoBody) : l \in {Null, Lit("10")}}
    \cup {Request("market-proxy", y, NoBody) : y \in {Null, Lit("NVDA")}}
    \cup {Request(h, Null, NoBody) :
            h \in {"wechat-list-proxy", "generate-proxy-v1", "wechat-generate-proxy"}}
    \cup {Request(h, Null, b) : h \in {"theme-search-proxy", "wechat-create-proxy"},
                                b \in BrowserBodies}

GenerateRequests == {Request("wechat-generate-proxy", Null, NoBody)}

\* process.env: each variable set or unset.
Envs == [API_HOST : {Undef, Lit("backend.internal")}, API_PORT : {Undef, Lit("9000")}]

Statuses == {200, 201, 204, 404, 500}

\* An object without the members whose value is undefined (absent members).
Members(f) == Obj([k \in {x \in DOMAIN f : f[x] # Undef} |-> f[k]])

\* A structured error detail {error?, trace_id?, stderr?}.
StructuredDetail(e, t, s) == Members([error |-> e, trace_id |-> t, stderr |-> s])
DetailErrors == {Undef, Lit("Workflow failed")}
DetailTraceIds == {Undef, Lit("a3b5c7d9")}

SeqsUpTo(S, n) == UNION {[1..m -> S] : m \in 0..n}

\* A stderr text is a run of at most MaxPieces pieces, a piece being one
\* token or a whole phrase.
Pieces ==
    {<<x>> : x \in StderrTokens}
    \cup {<<NMN, "apscheduler", Quote>>, <<NMN, MNFE, Quote>>,
          <<NMN, "apscheduler", Dot, "apscheduler", Quote>>}

RECURSIVE Flatten(_)
Flatten(ps) == IF ps = <<>> THEN <<>> ELSE Head(ps) \o Flatten(Tail(ps))

AllStderrs == {Flatten(ps) : ps \in SeqsUpTo(Pieces, MaxPieces)}

SampleStderrs ==
    {Undef, Num(1), Str(<<>>),
     Str(<<"Traceback">>),
     Str(<<MNFE, NMN, "apscheduler", Quote>>),
     Str(<<NMN, "apscheduler", Quote>>),
     Str(<<MNFE, NMN, "apscheduler", Dot, "apscheduler", Quote>>),
     Str(<<MNFE>>)}

ArticleRef(f, d, t) == Obj([filename |-> Lit(f), date |-> Lit(d), title |-> Lit(t)])
ArticleRefs ==
    {ArticleRef("wechat_20251212.html", "20251212", "AI Research - 2025-12-12"),
     ArticleRef("wechat_20251213.html", "20251213", "AI Research - 2025-12-13")}
ArticleLists == {Obj([articles |-> Arr(l)]) : l \in SeqsUpTo(ArticleRefs, MaxArticles)}

\* A detail with every member of the error envelope.
FullDetail ==
    Obj([error |-> Lit("Workflow failed"), trace_id |-> Lit("a3b5c7d9"),
         stderr |-> Lit("Traceback"), stdout |-> Lit("Fetching papers"),
         suggestion |-> Lit("pip install apscheduler"), exit_code |-> Num(1)])

PlainDetails == {Null, Str(<<>>), Lit("Article not found"), Num(7), Bool(TRUE)}

JsonValues ==
    {Null, Obj(<<>>), Lit("ok"),
     Obj([message |-> Lit("Paper generated"), trace_id |-> Lit("a3b5c7d9")])}
    \cup ArticleLists
    \cup {Obj([detail |-> d]) : d \in PlainDetails \cup {FullDetail}}
    \cup {Obj([detail |-> StructuredDetail(e, t, s)]) :
            e \in DetailErrors, t \in DetailTraceIds, s \in SampleStderrs}

Bodies == {EmptyBody, TextBody(<<"<html>article</html>">>)} \cup {JsonBody(v) : v \in JsonValues}

\* A response with a null-body status (204) carries no body.
BodyStatuses == {st \in Statuses : ~NullBodyStatus(st)}
Answers(bodies) ==
    {Responded(st, b) : st \in BodyStatuses, b \in bodies}
    \cup {Responded(st, EmptyBody) : st \in Statuses \ BodyStatuses}

(* ------------------------------------------------------------------ *)
(* State                                                               *)
(* ------------------------------------------------------------------ *)
VARIABLES
    env,    \* process.env of the server
    pc,     \* per browser connection: "idle", "fetching" (awaiting fetch), "done"
    req,    \* the browser request being handled
    calls,  \* outbound fetches issued for that request
    out,    \* the outbound request
    ans,    \* how the fetch settled
    res,    \* what the handler produced
    toggle,     \* the LivePortfolioToggle component in the browser
    research,   \* the research page in the browser
    wechat,     \* the wechat page in the browser
    dashboard,  \* the portfolio dashboard page in the browser
    market,     \* the market dashboard page in the browser
    home        \* the home page in the browser

vars == <<env, pc, req, calls, out, ans, res, toggle, research, wechat, dashboard, market, home>>

\* The browser's components; the route handlers do not touch them.
uivars == <<toggle, research, wechat, dashboard, market, home>>
NotMounted == [mounted |-> FALSE]

\* The market dashboard when it is not on screen: whether the interval of its
\* effect still runs in the window, and the fetches it has issued.
MarketGone(timer, issued) == [mounted |-> FALSE, timer |-> timer, issued |-> issued]

NoOutbound == [method |-> "none"]
NoResult == [threw |-> FALSE, r |-> [status |-> 0, ctype |-> "none", body |-> NoBody]]

Connections == {"browser"}

Init ==
    /\ env \in Envs
    /\ pc = [c \in Connections |-> "idle"]
    /\ req = [c \in Connections |-> NoRequest]
    /\ calls = [c \in Connections |-> 0]
    /\ out = [c \in Connections |-> NoOutbound]
    /\ ans = [c \in Connections |-> NoAnswer]
    /\ res = [c \in Connections |-> NoResult]
    /\ toggle = NotMounted
    /\ research = NotMounted
    /\ wechat = NotMounted
    /\ dashboard = NotMounted
    /\ market = MarketGone(FALSE, 0)
    /\ home = NotMounted

\* Variant: the URL is kept in a variable of the module, so the handlers that
\* await their fetch see the URL of the request that came last.
ReceiveSharedUrl(c, rq) ==
    /\ pc[c] = "idle"
    /\ req' = [req EXCEPT ![c] = rq]
    /\ LET e == HandlerEarly(rq)
       IN  IF e.early
           THEN /\ pc' = [pc EXCEPT ![c] = "done"]
                /\ res' = [res EXCEPT ![c] = e.res]
                /\ UNCHANGED <<calls, out>>
           ELSE /\ pc' = [pc EXCEPT ![c] = "fetching"]
                /\ calls' = [calls EXCEPT ![c] = @ + 1]
                /\ out' = [d \in DOMAIN out |->
                              IF d = c \/ pc[d] = "fetching"
                              THEN HandlerFetch(rq, env) ELSE out[d]]
                /\ UNCHANGED res
    /\ UNCHANGED <<env, ans>>

\* The handler is entered and runs to its first suspension: it returns at
\* once, or it has called fetch and awaits it.
Receive(c, rq) ==
    /\ pc[c] = "idle"
    /\ req' = [req EXCEPT ![c] = rq]
    /\ LET e == HandlerEarly(rq)
       IN  IF e.early
           THEN /\ pc' = [pc EXCEPT ![c] = "done"]
                /\ res' = [res EXCEPT ![c] = e.res]
                /\ UNCHANGED <<calls, out>>
           ELSE /\ pc' = [pc EXCEPT ![c] = "fetching"]
                /\ calls' = [calls EXCEPT ![c] = @ + 1]
                /\ out' = [out EXCEPT ![c] = HandlerFetch(rq, env)]
                /\ UNCHANGED res
    /\ UNCHANGED <<env, ans>>

\* Variant: a failed attempt is tried once more before it is reported.
SettleWithRetry(c, a) ==
    IF (a.k = "reject" \/ ~Ok(a.status)) /\ calls[c] < 2
    THEN /\ pc[c] = "fetching"
         /\ calls' = [calls EXCEPT ![c] = @ + 1]
         /\ UNCHANGED <<env, pc, req, out, ans, res>>
    ELSE /\ pc[c] = "fetching"
         /\ ans' = [ans EXCEPT ![c] = a]
         /\ res' = [res EXCEPT ![c] = HandlerSettle(req[c], a)]
         /\ pc' = [pc EXCEPT ![c] = "done"]
         /\ UNCHANGED <<env, req, calls, out>>

\* Variant: the backend's response is kept in a variable of the module, and a
\* handler builds its answer from the response another request has left there.
SettleSharedResponse(c, a) ==
    /\ pc[c] = "fetching"
    /\ ans' = [ans EXCEPT ![c] = a]
    /\ res' = [res EXCEPT ![c] =
                 IF \E d \in DOMAIN pc : d # c /\ pc[d] = "done" /\ ans[d] # NoAnswer
                 THEN HandlerSettle(req[c],
                          ans[CHOOSE d \in DOMAIN pc :
                                  d # c /\ pc[d] = "done" /\ ans[d] # NoAnswer])
                 ELSE HandlerSettle(req[c], a)]
    /\ pc' = [pc EXCEPT ![c] = "done"]
    /\ UNCHANGED <<env, req, calls, out>>

\* The awaited fetch settles as a (a rejection or a backend response) and the
\* handler runs to its return.
Settle(c, a) ==
    /\ pc[c] = "fetching"
    /\ ans' = [ans EXCEPT ![c] = a]
    /\ res' = [res EXCEPT ![c] = HandlerSettle(req[c], a)]
    /\ pc' = [pc EXCEPT ![c] = "done"]
    /\ UNCHANGED <<env, req, calls, out>>

FetchRejects(c) == Settle(c, Rejected)
FetchResponds(c, a) == Settle(c, a)

\* The response has gone to the browser; the connection takes its next request.
Deliver(c) ==
    /\ pc[c] = "done"
    /\ pc' = [pc EXCEPT ![c] = "idle"]
    /\ req' = [req EXCEPT ![c] = NoRequest]
    /\ calls' = [calls EXCEPT ![c] = 0]
    /\ out' = [out EXCEPT ![c] = NoOutbound]
    /\ ans' = [ans EXCEPT ![c] = NoAnswer]
    /\ res' = [res EXCEPT ![c] = NoResult]
    /\ UNCHANGED env

Next ==
    \E c \in Connections :
        \/ pc[c] = "idle" /\ UNCHANGED uivars /\ \E rq \in Requests : Receive(c, rq)
        \/ FetchRejects(c) /\ UNCHANGED uivars
        \/ pc[c] = "fetching" /\ UNCHANGED uivars
             /\ \E a \in Answers(Bodies) : FetchResponds(c, a)
        \/ Deliver(c) /\ UNCHANGED uivars

Spec == Init /\ [][Next]_vars

\* The generate proxy alone, against every structured error detail whose
\* stderr is a text of at most MaxPieces pieces.
NextGenerate ==
    \E c \in Connections :
        \/ pc[c] = "idle" /\ UNCHANGED uivars
             /\ \E rq \in GenerateRequests : Receive(c, rq)
        \/ FetchRejects(c) /\ UNCHANGED uivars
        \/ pc[c] = "fetching" /\ UNCHANGED uivars /\
             \E st \in BodyStatuses, e \in DetailErrors, t \in DetailTraceIds,
                s \in AllStderrs :
                  FetchResponds(c, Responded(st, JsonBody(
                      Obj([detail |-> StructuredDetail(e, t, Str(s))]))))
        \/ Deliver(c) /\ UNCHANGED uivars

SpecGenerate == Init /\ [][NextGenerate]_vars

(* ------------------------------------------------------------------ *)
(* Requests handled concurrently                                       *)
(* ------------------------------------------------------------------ *)
\* Two browser tabs, each with a request of its own under way.
Tabs == {"tab1", "tab2"}

InitConcurrent ==
    /\ env \in Envs
    /\ pc = [c \in Tabs |-> "idle"]
    /\ req = [c \in Tabs |-> NoRequest]
    /\ calls = [c \in Tabs |-> 0]
    /\ out = [c \in Tabs |-> NoOutbound]
    /\ ans = [c \in Tabs |-> NoAnswer]
    /\ res = [c \in Tabs |-> NoResult]
    /\ toggle = NotMounted
    /\ research = NotMounted
    /\ wechat = NotMounted
    /\ dashboard = NotMounted
    /\ market = MarketGone(FALSE, 0)
    /\ home = NotMounted

ConcurrentRequests ==
    {Request("wechat-list-proxy", Null, NoBody),
     Request("wechat-article-proxy", Lit("wechat_20251212.html"), NoBody),
     Request("wechat-article-proxy", Null, NoBody),
     Request("wechat-delete-proxy", Lit("wechat_20251212.html"), NoBody),
     Request("market-proxy", Lit("NVDA"), NoBody),
     Request("wechat-generate-proxy", Null, NoBody)}

ConcurrentAnswers ==
    {Responded(200, JsonBody(Obj([articles |-> Arr(<<>>)]))),
     Responded(200, JsonBody(Obj([articles |-> Arr(
         <<ArticleRef("wechat_20251213.html", "20251213", "AI Research - 2025-12-13"),
           ArticleRef("wechat_20251212.html", "20251212", "AI Research - 2025-12-12")>>)]))),
     Responded(200, TextBody(<<"<html>article</html>">>)),
     Responded(404, JsonBody(Obj([detail |-> Lit("Article not found")])))}

NextConcurrent ==
    \E c \in Tabs :
        \/ pc[c] = "idle" /\ UNCHANGED uivars
             /\ \E rq \in ConcurrentRequests : Receive(c, rq)
        \/ FetchRejects(c) /\ UNCHANGED uivars
        \/ pc[c] = "fetching" /\ UNCHANGED uivars
             /\ \E a \in ConcurrentAnswers : FetchResponds(c, a)
        \/ Deliver(c) /\ UNCHANGED uivars

SpecConcurrent == InitConcurrent /\ [][NextConcurrent]_vars

(* ------------------------------------------------------------------ *)
(* LivePortfolioToggle                                                 *)
(* ------------------------------------------------------------------ *)
MaxInFlight == 3

Investors == {"warren-buffett", "li-lu"}
ViewModes == {"historical", "live"}

\* What response.json() yields for /api/live-portfolio/{investor}.
LivePortfolioData(investor, date) ==
    Obj([investor |-> Lit(investor), report_date |-> Lit(date)])
ReportDates == {"2025-09-30", "2025-12-31"}

\* How the component's fetch ends: a 2xx response with a JSON body, a non-2xx
\* response, or an exception (fetch rejects, or the body is no JSON).
LiveOk(data) == [k |-> "ok", data |-> data]
LiveNotOk == [k |-> "notok"]
LiveThrows == [k |-> "throws"]
LiveOutcomes(investor) ==
    {LiveNotOk, LiveThrows, LiveOk(Null)}
    \cup {LiveOk(LivePortfolioData(investor, d)) : d \in ReportDates}

\* useState initial values; fetches counts the calls of fetchLiveData that
\* await their response.
ToggleMounted(investor) ==
    [mounted |-> TRUE, investor |-> investor, viewMode |-> "historical",
     liveData |-> Null, loading |-> FALSE, error |-> Null, fetches |-> 0]

MountToggle(investor) ==
    /\ toggle = NotMounted
    /\ toggle' = ToggleMounted(investor)

\* fetchLiveData up to its await: setLoading(true); setError(null); fetch(...)
FetchLiveDataStarts(t) ==
    [t EXCEPT !.loading = TRUE, !.error = Null, !.fetches = @ + 1]

\* Variant: the effect fetches only when no fetch is under way.
ViewModeEffectSingleFlight(t) ==
    IF t.viewMode = "live" /\ ~Truthy(t.liveData) /\ t.fetches = 0
    THEN FetchLiveDataStarts(t)
    ELSE t

\* useEffect(..., [viewMode]): if (viewMode === "live" && !liveData) fetchLiveData()
ViewModeEffect(t) ==
    IF t.viewMode = "live" /\ ~Truthy(t.liveData) THEN FetchLiveDataStarts(t) ELSE t

\* A toggle button is clicked: setViewMode(mode); when the mode changes the
\* component renders again and the effect runs.
SetViewMode(mode) ==
    /\ toggle.mounted
    /\ toggle.viewMode # mode
    /\ LET t == ViewModeEffect([toggle EXCEPT !.viewMode = mode])
       IN  /\ t.fetches <= MaxInFlight
           /\ toggle' = t

\* fetchLiveData from its await to its end, for one of the calls under way.
FetchLiveDataSettles(o) ==
    /\ toggle.mounted
    /\ toggle.fetches > 0
    /\ toggle' =
         [toggle EXCEPT
            !.liveData = IF o.k = "ok" THEN o.data ELSE @,
            !.error = CASE o.k = "ok" -> @
                        [] o.k = "notok" -> Lit("Failed to fetch live portfolio")
                        [] o.k = "throws" -> Lit("Error loading live portfolio"),
            !.loading = FALSE,
            !.fetches = @ - 1]

\* The component is removed from the page (another strategy tab is chosen);
\* the calls still under way then set the state of a component that is gone.
UnmountToggle ==
    /\ toggle.mounted
    /\ toggle' = NotMounted

NextToggle ==
    \/ \E i \in Investors : MountToggle(i) /\ UNCHANGED <<env, pc, req, calls, out, ans, res, research, wechat, dashboard, market, home>>
    \/ \E m \in ViewModes : SetViewMode(m) /\ UNCHANGED <<env, pc, req, calls, out, ans, res, research, wechat, dashboard, market, home>>
    \/ /\ toggle.mounted
       /\ \E o \in LiveOutcomes(toggle.investor) : FetchLiveDataSettles(o)
       /\ UNCHANGED <<env, pc, req, calls, out, ans, res, research, wechat, dashboard, market, home>>
    \/ UnmountToggle /\ UNCHANGED <<env, pc, req, calls, out, ans, res, research, wechat, dashboard, market, home>>

SpecToggle == Init /\ [][NextToggle]_vars

\* What the live view renders: {loading && ...} {error && ...} {liveData && ...}
ToggleShowsLoading == toggle.mounted /\ toggle.viewMode = "live" /\ toggle.loading
ToggleShowsError == toggle.mounted /\ toggle.viewMode = "live" /\ Truthy(toggle.error)
ToggleShowsData == toggle.mounted /\ toggle.viewMode = "live" /\ Truthy(toggle.liveData)

(* ------------------------------------------------------------------ *)
(* Research page: text of the dialogs                                  *)
(* ------------------------------------------------------------------ *)
NL == "\n"

\* s.split('\n'): the lines of s, one more than it has line breaks.
RECURSIVE Split(_)
Split(s) ==
    IF ~Includes(s, NL) THEN <<s>>
    ELSE LET i == CHOOSE x \in 1..Len(s) : s[x] = NL /\ \A y \in 1..(x - 1) : s[y] # NL
         IN  <<SubSeq(s, 1, i - 1)>> \o Split(SubSeq(s, i + 1, Len(s)))

\* lines.join('\n')
RECURSIVE Join(_)
Join(ls) ==
    IF ls = <<>> THEN <<>>
    ELSE IF Len(ls) = 1 THEN ls[1]
    ELSE ls[1] \o <<NL>> \o Join(Tail(ls))

\* lines.slice(0, n)
Slice(ls, n) == SubSeq(ls, 1, IF Len(ls) < n THEN Len(ls) ELSE n)

PreviewLines == 5

\* v?.k
OptProp(v, k) == IF v.t \in {"null", "undefined"} THEN Undef ELSE Prop(v, k)

\* The success dialog: message + traceId + '\n\nRefreshing list...'
SuccessAlert(data) ==
    ToStr(OrElse(Prop(data, "message"), Lit("Research paper generated successfully!")))
    \o (IF Truthy(Prop(data, "trace_id"))
        THEN <<" (Trace ID: ">> \o ToStr(Prop(data, "trace_id")) \o <<")">>
        ELSE <<>>)
    \o <<NL, NL, "Refreshing list...">>

TraceIdBlock(detail) ==
    IF Truthy(OptProp(detail, "trace_id"))
    THEN <<NL, NL, "Trace ID: ">> \o ToStr(OptProp(detail, "trace_id"))
         \o <<NL, "Check the backend logs for more details.">>
    ELSE <<>>

\* Variant: the whole of stderr is shown.
StderrBlockWhole(detail) ==
    IF Truthy(OptProp(detail, "stderr"))
    THEN <<NL, NL, "Error details:", NL>> \o OptProp(detail, "stderr").s
    ELSE <<>>

\* The first PreviewLines lines of stderr, and a closing line when there are more.
StderrBlock(detail) ==
    IF Truthy(OptProp(detail, "stderr"))
    THEN LET lines == Split(OptProp(detail, "stderr").s)
         IN  <<NL, NL, "Error details:", NL>> \o Join(Slice(lines, PreviewLines))
             \o (IF Len(lines) > PreviewLines
                 THEN <<NL, "... (see backend logs for full error)">>
                 ELSE <<>>)
    ELSE <<>>

SuggestionBlock(detail) ==
    IF Truthy(OptProp(detail, "suggestion"))
    THEN <<NL, NL, "Suggestion: ">> \o ToStr(OptProp(detail, "suggestion"))
    ELSE <<>>

\* data.detail.stderr.split is no function: stderr is truthy and no string.
FailureAlertThrows(data) ==
    LET stderr == OptProp(Prop(data, "detail"), "stderr")
    IN  Truthy(stderr) /\ stderr.t # "string"

\* The failure dialog: `Failed to generate paper:\n\n${errorMsg}`
FailureAlert(data) ==
    <<"Failed to generate paper:", NL, NL>>
    \o ToStr(OrElse(Prop(data, "error"), Lit("Unknown error")))
    \o TraceIdBlock(Prop(data, "detail"))
    \o StderrBlock(Prop(data, "detail"))
    \o SuggestionBlock(Prop(data, "detail"))

ConnectAlert ==
    <<"Error generating paper: Failed to connect to the server.", NL, NL,
      "Please ensure the backend API is running on port 8000.">>

\* generatePaper from the response r of its fetch to its alert; reload tells
\* whether window.location.reload() is called.
Alerted(text, reload) == [text |-> text, reload |-> reload]
GeneratePaperAlert(r) ==
    IF JsonThrows(r.body) \/ PropThrows(Json(r.body)) THEN Alerted(ConnectAlert, FALSE)
    ELSE IF Ok(r.status) THEN Alerted(SuccessAlert(Json(r.body)), TRUE)
    ELSE IF FailureAlertThrows(Json(r.body)) THEN Alerted(ConnectAlert, FALSE)
    ELSE Alerted(FailureAlert(Json(r.body)), FALSE)

(* ------------------------------------------------------------------ *)
(* Research page                                                       *)
(* ------------------------------------------------------------------ *)
\* useState initial values; alert is the text of the dialog on screen (null
\* when there is none), reloading that window.location.reload() was called.
\* closures holds, for each call of deleteArticle that awaits its fetch, the
\* `articles` of the render whose button was clicked; deleted records the
\* filenames for which 'Article deleted successfully' was shown.
ResearchMounted ==
    [mounted |-> TRUE, articles |-> Arr(<<>>), loading |-> TRUE, error |-> Null,
     selectedArticle |-> Null, generating |-> FALSE, alert |-> Null,
     reloading |-> FALSE, closures |-> <<>>, deleted |-> {}]

ListRequest == Request("wechat-list-proxy", Null, NoBody)
GenerateRequest == Request("wechat-generate-proxy", Null, NoBody)

\* The page is loaded: the effect calls fetchArticles, which awaits its fetch.
MountResearch(c) ==
    /\ research = NotMounted
    /\ Receive(c, ListRequest)
    /\ research' = ResearchMounted

\* fetchArticles from the response r of its fetch to its end.
FetchArticlesCatch(p) ==
    [p EXCEPT !.error = Str(<<"Error fetching articles: ", "String(error)">>),
              !.loading = FALSE]
FetchArticlesResult(p, r) ==
    IF Ok(r.status)
    THEN IF JsonThrows(r.body) \/ PropThrows(Json(r.body)) THEN FetchArticlesCatch(p)
         ELSE [p EXCEPT !.articles = Prop(Json(r.body), "articles"), !.loading = FALSE]
    ELSE [p EXCEPT !.error = Str(<<"Failed to fetch articles: ", ToString(r.status)>>),
                   !.loading = FALSE]

FetchArticlesSettles(c) ==
    /\ research.mounted
    /\ pc[c] = "done"
    /\ req[c] = ListRequest
    /\ research' = FetchArticlesResult(research, res[c].r)
    /\ Deliver(c)

\* The page's own fetch rejects (the dashboard server is not reached).
FetchArticlesRejects(c) ==
    /\ research.mounted
    /\ pc[c] = "done"
    /\ req[c] = ListRequest
    /\ research' = FetchArticlesCatch(research)
    /\ Deliver(c)

\* What the page renders: the guards of ResearchPage in their order.
ResearchShowsLoading == research.mounted /\ research.loading
ResearchRenderThrows ==
    research.mounted /\ ~research.loading /\ research.articles.t # "array"
ResearchShowsPanel ==
    /\ research.mounted /\ ~research.loading /\ research.articles.t = "array"
    /\ (research.articles.a = <<>> \/ Truthy(research.error))
ResearchShowsError == ResearchShowsPanel /\ Truthy(research.error)
ResearchShowsArticle ==
    /\ research.mounted /\ ~research.loading /\ research.articles.t = "array"
    /\ ~ResearchShowsPanel
    /\ Truthy(research.selectedArticle)
ResearchShowsList ==
    /\ research.mounted /\ ~research.loading /\ research.articles.t = "array"
    /\ ~ResearchShowsPanel
    /\ ~Truthy(research.selectedArticle)

\* An article of the list is clicked / "Back to Articles" is clicked.
SelectArticle(i) ==
    /\ ResearchShowsList
    /\ ~research.reloading
    /\ i \in 1..Len(research.articles.a)
    /\ research' = [research EXCEPT !.selectedArticle = Prop(research.articles.a[i], "filename"),
                                    !.alert = Null]
BackToArticles ==
    /\ ResearchShowsArticle
    /\ research' = [research EXCEPT !.selectedArticle = Null]

\* Variant: the button stays enabled while a paper is generated.
ClickGenerateEnabled(c) ==
    /\ ResearchShowsList
    /\ ~research.reloading
    /\ Receive(c, GenerateRequest)
    /\ research' = [research EXCEPT !.generating = TRUE, !.alert = Null]

\* "Auto-Generate Paper" is clicked and confirmed: generatePaper up to its await.
ClickGenerate(c) ==
    /\ ResearchShowsList
    /\ ~research.generating
    /\ ~research.reloading
    /\ Receive(c, GenerateRequest)
    /\ research' = [research EXCEPT !.generating = TRUE, !.alert = Null]

\* generatePaper from the response of its fetch to its end.
GeneratePaperSettles(c) ==
    /\ research.mounted
    /\ pc[c] = "done"
    /\ req[c] = GenerateRequest
    /\ LET a == GeneratePaperAlert(res[c].r)
       IN  research' = [research EXCEPT !.alert = Str(a.text), !.generating = FALSE,
                                        !.reloading = a.reload]
    /\ Deliver(c)

GeneratePaperRejects(c) ==
    /\ research.mounted
    /\ pc[c] = "done"
    /\ req[c] = GenerateRequest
    /\ research' = [research EXCEPT !.alert = Str(ConnectAlert), !.generating = FALSE]
    /\ Deliver(c)

\* articles.filter(a => a.filename !== filename)
ArticlesWithout(articles, filename) ==
    Arr(SelectSeq(articles.a, LAMBDA a : Prop(a, "filename") # filename))

DeleteRequest(filename) == Request("wechat-delete-proxy", filename, NoBody)
IsDeleteRequest(rq) == rq.h = "wechat-delete-proxy"

\* The delete button of article i is clicked and confirmed: deleteArticle up
\* to its await.
DeleteArticle(c, i) ==
    /\ ResearchShowsList
    /\ ~research.reloading
    /\ i \in 1..Len(research.articles.a)
    /\ Receive(c, DeleteRequest(Prop(research.articles.a[i], "filename")))
    /\ research' = [research EXCEPT !.closures = (c :> research.articles) @@ @,
                                    !.alert = Null]

Forget(closures, c) == [k \in DOMAIN closures \ {c} |-> closures[k]]

\* deleteArticle from the response of its fetch to its end; an exception of
\* the route handler reaches the page as a 500.
DeleteArticleSettles(c) ==
    /\ research.mounted
    /\ pc[c] = "done"
    /\ IsDeleteRequest(req[c])
    /\ c \in DOMAIN research.closures
    /\ research' =
         IF ~res[c].threw /\ Ok(res[c].r.status)
         THEN [research EXCEPT
                 !.articles = ArticlesWithout(research.closures[c], req[c].param),
                 !.alert = Lit("Article deleted successfully"),
                 !.deleted = @ \cup {req[c].param},
                 !.closures = Forget(@, c)]
         ELSE [research EXCEPT !.alert = Lit("Failed to delete article"),
                               !.closures = Forget(@, c)]
    /\ Deliver(c)

DeleteArticleRejects(c) ==
    /\ research.mounted
    /\ pc[c] = "done"
    /\ IsDeleteRequest(req[c])
    /\ c \in DOMAIN research.closures
    /\ research' = [research EXCEPT !.alert = Lit("Error deleting article"),
                                    !.closures = Forget(@, c)]
    /\ Deliver(c)

\* window.location.reload(): after a generated paper, or by "Retry".
Reload(c) ==
    /\ research.mounted
    /\ research.reloading \/ ResearchShowsError
    /\ \A k \in DOMAIN pc : pc[k] = "idle"
    /\ research' = NotMounted
    /\ UNCHANGED <<env, pc, req, calls, out, ans, res>>

\* Inputs of the page: stderr texts by lines, backend answers.
MaxLines == 6
Suggestions == {Undef, Lit("pip install apscheduler")}
LineKinds == {<<"Traceback">>, <<MNFE, NMN, "apscheduler", Quote>>}
StderrTexts == {Join(ls) : ls \in SeqsUpTo(LineKinds, MaxLines)}

DetailWithSuggestion(e, t, s, g) ==
    Members([error |-> e, trace_id |-> t, stderr |-> s, suggestion |-> g])

ListAnswers ==
    {Responded(200, JsonBody(Null)), Responded(200, JsonBody(Obj(<<>>))),
     Responded(500, EmptyBody),
     Responded(200, JsonBody(Obj([articles |-> Arr(<<>>)]))),
     Responded(200, JsonBody(Obj([articles |-> Arr(
         <<ArticleRef("wechat_20251213.html", "20251213", "AI Research - 2025-12-13"),
           ArticleRef("wechat_20251212.html", "20251212", "AI Research - 2025-12-12")>>)])))}

GenerateAnswers ==
    {Responded(200, JsonBody(Obj([message |-> Lit("Paper generated"),
                                  trace_id |-> Lit("a3b5c7d9")]))),
     Responded(200, JsonBody(Obj(<<>>))),
     Responded(500, EmptyBody),
     Responded(404, JsonBody(Obj([detail |-> Lit("Article not found")])))}

NextResearch ==
    \E c \in Connections :
        \/ MountResearch(c) /\ UNCHANGED <<toggle, wechat, dashboard, market, home>>
        \/ FetchRejects(c) /\ UNCHANGED uivars
        \/ pc[c] = "fetching" /\ req[c] = ListRequest /\ UNCHANGED uivars
             /\ \E a \in ListAnswers : FetchResponds(c, a)
        \/ pc[c] = "fetching" /\ req[c] = GenerateRequest /\ UNCHANGED uivars
             /\ \E a \in GenerateAnswers : FetchResponds(c, a)
        \/ pc[c] = "fetching" /\ req[c] = GenerateRequest /\ UNCHANGED uivars
             /\ \E t \in DetailTraceIds, g \in Suggestions, s \in StderrTexts :
                  FetchResponds(c, Responded(500, JsonBody(Obj(
                      [detail |-> DetailWithSuggestion(Lit("Workflow failed"), t,
                                                       Str(s), g)]))))
        \/ FetchArticlesSettles(c) /\ UNCHANGED <<toggle, wechat, dashboard, market, home>>
        \/ FetchArticlesRejects(c) /\ UNCHANGED <<toggle, wechat, dashboard, market, home>>
        \/ ResearchShowsList
             /\ (\E i \in 1..Len(research.articles.a) : SelectArticle(i))
             /\ UNCHANGED <<env, pc, req, calls, out, ans, res, toggle, wechat, dashboard, market, home>>
        \/ BackToArticles /\ UNCHANGED <<env, pc, req, calls, out, ans, res, toggle, wechat, dashboard, market, home>>
        \/ ClickGenerate(c) /\ UNCHANGED <<toggle, wechat, dashboard, market, home>>
        \/ GeneratePaperSettles(c) /\ UNCHANGED <<toggle, wechat, dashboard, market, home>>
        \/ GeneratePaperRejects(c) /\ UNCHANGED <<toggle, wechat, dashboard, market, home>>
        \/ Reload(c) /\ UNCHANGED <<toggle, wechat, dashboard, market, home>>

SpecResearch == Init /\ [][NextResearch]_vars

\* The page with two requests of the browser under way at a time.
TwoArticles ==
    Obj([articles |-> Arr(
        <<ArticleRef("wechat_20251213.html", "20251213", "AI Research - 2025-12-13"),
          ArticleRef("wechat_20251212.html", "20251212", "AI Research - 2025-12-12")>>)])
PageListAnswers == {Responded(200, JsonBody(TwoArticles)), Responded(500, EmptyBody)}
DeleteAnswers ==
    {Responded(200, JsonBody(Obj([message |-> Lit("Article deleted")]))),
     Responded(404, JsonBody(Obj([detail |-> Lit("Article not found")])))}
PageAnswers(rq) ==
    CASE rq = ListRequest -> PageListAnswers
      [] rq = GenerateRequest -> GenerateAnswers
      [] OTHER -> DeleteAnswers

\* The requests of the page are answered by the backend, or not at all.
BackendSettles(c) ==
    /\ pc[c] = "fetching"
    /\ FetchRejects(c) \/ \E a \in PageAnswers(req[c]) : FetchResponds(c, a)
    /\ UNCHANGED uivars

PageUnchanged == UNCHANGED <<toggle, wechat, dashboard, market, home>>
ProxiesUnchanged == UNCHANGED <<env, pc, req, calls, out, ans, res>>

GenerateSettles(c) ==
    \/ req[c] = GenerateRequest /\ BackendSettles(c)
    \/ GeneratePaperSettles(c) /\ PageUnchanged
    \/ GeneratePaperRejects(c) /\ PageUnchanged

NextResearchPage ==
    \E c \in Tabs :
        \/ MountResearch(c) /\ PageUnchanged
        \/ req[c] # GenerateRequest /\ BackendSettles(c)
        \/ GenerateSettles(c)
        \/ FetchArticlesSettles(c) /\ PageUnchanged
        \/ FetchArticlesRejects(c) /\ PageUnchanged
        \/ ClickGenerate(c) /\ PageUnchanged
        \/ ResearchShowsList
             /\ (\E i \in 1..Len(research.articles.a) : DeleteArticle(c, i))
             /\ PageUnchanged
        \/ DeleteArticleSettles(c) /\ PageUnchanged
        \/ DeleteArticleRejects(c) /\ PageUnchanged
        \/ Reload(c) /\ PageUnchanged

SpecResearchPage == InitConcurrent /\ [][NextResearchPage]_vars

\* Every fetch settles and the continuation of an awaited fetch runs: a
\* generate request under way is answered, and its answer reaches the page.
SpecResearchPageFair ==
    SpecResearchPage /\ \A c \in Tabs : WF_vars(GenerateSettles(c))

(* ------------------------------------------------------------------ *)
(* Wechat page                                                         *)
(* ------------------------------------------------------------------ *)
WechatFiles == {"wechat_20251212.html", "wechat_20251213.html"}
Editions == {1, 2}

\* The body the backend serves for a file, in one of its editions.
WechatHtml(f, e) == Str(<<"<html>", f, ToString(e), "</html>">>)
WechatList == Obj([articles |-> Arr(<<Lit("wechat_20251212.html"), Lit("wechat_20251213.html")>>)])

\* How a fetch of the page ends.
PageOk(data) == [k |-> "ok", data |-> data]
PageNotOk == [k |-> "notok"]
PageThrows == [k |-> "throws"]
WechatListOutcomes == {PageOk(WechatList), PageOk(Obj(<<>>)), PageOk(Null), PageNotOk, PageThrows}
LoadOutcomes(f) == {PageOk(WechatHtml(f, e)) : e \in Editions} \cup {PageNotOk, PageThrows}

\* useState initial values; listPending: fetchArticles awaits its fetch;
\* loads: the filenames for which loadArticle awaits its fetch.
WechatMounted ==
    [mounted |-> TRUE, articles |-> Arr(<<>>), selectedArticle |-> Null,
     articleContent |-> Str(<<>>), loading |-> TRUE, listPending |-> TRUE, loads |-> {}]

MountWechat ==
    /\ wechat = NotMounted
    /\ wechat' = WechatMounted

\* Variant: fetchArticles without its finally block.
FetchWechatListNoFinally(o) ==
    /\ wechat.mounted
    /\ wechat.listPending
    /\ wechat' =
         IF o.k = "ok" /\ ~PropThrows(o.data)
         THEN [wechat EXCEPT !.articles = OrElse(Prop(o.data, "articles"), Arr(<<>>)),
                             !.loading = FALSE, !.listPending = FALSE]
         ELSE [wechat EXCEPT !.listPending = FALSE]

\* fetchArticles from the response of its fetch to its end.
FetchWechatListSettles(o) ==
    /\ wechat.mounted
    /\ wechat.listPending
    /\ wechat' =
         IF o.k = "ok" /\ ~PropThrows(o.data)
         THEN [wechat EXCEPT !.articles = OrElse(Prop(o.data, "articles"), Arr(<<>>)),
                             !.loading = FALSE, !.listPending = FALSE]
         ELSE [wechat EXCEPT !.loading = FALSE, !.listPending = FALSE]

WechatShowsList == wechat.mounted /\ ~wechat.loading
WechatShowsModal == WechatShowsList /\ Truthy(wechat.selectedArticle)

\* An article of the list is clicked: loadArticle up to its await. The modal,
\* when shown, covers the list.
LoadArticle(i) ==
    /\ WechatShowsList
    /\ ~WechatShowsModal
    /\ i \in 1..Len(wechat.articles.a)
    /\ wechat' = [wechat EXCEPT !.loads = @ \cup {wechat.articles.a[i]}]

\* loadArticle from the response of its fetch to its end.
LoadArticleSettles(f, o) ==
    /\ wechat.mounted
    /\ f \in wechat.loads
    /\ wechat' =
         IF o.k = "ok"
         THEN [wechat EXCEPT !.articleContent = o.data, !.selectedArticle = f,
                             !.loads = @ \ {f}]
         ELSE [wechat EXCEPT !.loads = @ \ {f}]

\* Variant: closing the modal leaves the content in place.
CloseModalKeepsContent ==
    /\ WechatShowsModal
    /\ wechat' = [wechat EXCEPT !.selectedArticle = Null]

\* The backdrop or the close button is clicked.
CloseModal ==
    /\ WechatShowsModal
    /\ wechat' = [wechat EXCEPT !.selectedArticle = Null, !.articleContent = Str(<<>>)]

LeaveWechat ==
    /\ wechat.mounted
    /\ wechat' = NotMounted

(* ------------------------------------------------------------------ *)
(* Portfolio dashboard                                                 *)
(* ------------------------------------------------------------------ *)
MaxFetches == 3
Strategies == {"warren-buffett", "li-lu", "duan-yongping", "market-cap-screener"}

\* A call of fetchPortfolio that awaits its fetch: the strategy of its URL and
\* its number among the fetches of the page.
PortfolioFetch(strategy, n) == [strategy |-> strategy, n |-> n]

\* What response.json() yields for the n-th fetch, of /api/portfolio/{strategy}.
PortfolioResponse(strategy, n) ==
    Obj([strategy |-> Lit(strategy), fetched |-> Num(n)])
PortfolioOutcomes(f) == {PageOk(PortfolioResponse(f.strategy, f.n)), PageNotOk, PageThrows}

\* fetchPortfolio up to its await: setLoading(true); setError(null); fetch(...)
FetchPortfolioStarts(d) ==
    [d EXCEPT !.loading = TRUE, !.error = Null, !.issued = @ + 1,
              !.fetches = @ \cup {PortfolioFetch(d.activeStrategy, d.issued + 1)}]

\* useState initial values, and the effect's first run.
DashboardMounted ==
    FetchPortfolioStarts(
        [mounted |-> TRUE, activeStrategy |-> "warren-buffett", portfolio |-> Null,
         loading |-> TRUE, error |-> Null, issued |-> 0, fetches |-> {}])

MountDashboard ==
    /\ dashboard = NotMounted
    /\ dashboard' = DashboardMounted

\* The guards of DashboardPage in their order: spinner, error screen, content.
DashboardShowsLoading == dashboard.mounted /\ dashboard.loading
DashboardShowsError == dashboard.mounted /\ ~dashboard.loading /\ Truthy(dashboard.error)
DashboardShowsContent == dashboard.mounted /\ ~dashboard.loading /\ ~Truthy(dashboard.error)

\* Variant: the tabs are rendered on the spinner and the error screen too.
SetActiveStrategyAnywhere(strategy) ==
    /\ dashboard.mounted
    /\ dashboard.activeStrategy # strategy
    /\ dashboard.issued < MaxFetches
    /\ dashboard' = FetchPortfolioStarts([dashboard EXCEPT !.activeStrategy = strategy])

\* A strategy tab is clicked: setActiveStrategy(tab.id); when the strategy
\* changes the effect runs fetchPortfolio.
SetActiveStrategy(strategy) ==
    /\ DashboardShowsContent
    /\ dashboard.activeStrategy # strategy
    /\ dashboard.issued < MaxFetches
    /\ dashboard' = FetchPortfolioStarts([dashboard EXCEPT !.activeStrategy = strategy])

\* fetchPortfolio from the response of its fetch to its end.
FetchPortfolioSettles(f, o) ==
    /\ dashboard.mounted
    /\ f \in dashboard.fetches
    /\ dashboard' =
         [dashboard EXCEPT
            !.portfolio = IF o.k = "ok" THEN o.data ELSE @,
            !.error = CASE o.k = "ok" -> @
                        [] o.k = "notok" -> Str(<<"Failed to fetch ", f.strategy, " portfolio">>)
                        [] o.k = "throws" -> Lit("Error loading portfolio"),
            !.loading = FALSE,
            !.fetches = @ \ {f}]

\* Retry on the error screen: window.location.reload()
RetryDashboard ==
    /\ DashboardShowsError
    /\ dashboard' = NotMounted

(* ------------------------------------------------------------------ *)
(* Market dashboard                                                    *)
(* ------------------------------------------------------------------ *)
MaxRefreshes == 2

Quotes(e) == Arr(<<Obj([symbol |-> Lit("NVDA"), price |-> Num(135 + e)])>>)
StockOutcomes == {PageOk(Quotes(e)) : e \in Editions} \cup {PageNotOk, PageThrows}

\* useState initial values, and the effect: fetchStocks() and setInterval.
\* fetches counts the calls of fetchStocks that await their fetch.
MarketMounted ==
    [mounted |-> TRUE, stocks |-> Arr(<<>>), loading |-> TRUE, error |-> Null,
     timer |-> TRUE, issued |-> 1, fetches |-> 1]

MountMarket ==
    /\ ~market.mounted
    /\ market' = MarketMounted

\* The interval fires: fetchStocks up to its await.
RefreshStocks ==
    /\ market.timer
    /\ market.issued < 1 + MaxRefreshes
    /\ market' = IF market.mounted
                 THEN [market EXCEPT !.issued = @ + 1, !.fetches = @ + 1]
                 ELSE [market EXCEPT !.issued = @ + 1]

\* fetchStocks from the response of its fetch to its end.
FetchStocksSettles(o) ==
    /\ market.mounted
    /\ market.fetches > 0
    /\ market' =
         [market EXCEPT
            !.stocks = IF o.k = "ok" THEN o.data ELSE @,
            !.error = CASE o.k = "ok" -> @
                        [] o.k = "notok" -> Lit("Failed to fetch stock data")
                        [] o.k = "throws" -> Lit("Error loading stock data"),
            !.loading = FALSE,
            !.fetches = @ - 1]

MarketShowsLoading == market.mounted /\ market.loading
MarketShowsError == market.mounted /\ ~market.loading /\ Truthy(market.error)
MarketShowsStocks == market.mounted /\ ~market.loading /\ ~Truthy(market.error)

\* Variant: the effect returns no cleanup, the interval outlives the page.
UnmountMarketKeepsInterval ==
    /\ market.mounted
    /\ market' = MarketGone(market.timer, market.issued)

\* The page is left: the cleanup of the effect runs clearInterval(interval).
UnmountMarket ==
    /\ market.mounted
    /\ market' = MarketGone(FALSE, market.issued)

\* Retry on the error screen: window.location.reload() ends the window's timers.
RetryMarket ==
    /\ MarketShowsError
    /\ market' = MarketGone(FALSE, market.issued)

(* ------------------------------------------------------------------ *)
(* Home page                                                           *)
(* ------------------------------------------------------------------ *)
MockStocks == Arr(<<Obj([symbol |-> Lit("NVDA")]), Obj([symbol |-> Lit("MSFT")])>>)

\* useState initial values; the effect sets a timeout of 500 ms.
HomeMounted == [mounted |-> TRUE, stocks |-> Arr(<<>>), loading |-> TRUE, timeout |-> TRUE]

MountHome ==
    /\ home = NotMounted
    /\ home' = HomeMounted

\* The timeout fires: setStocks(mockStocks); setLoading(false)
HomeTimeout ==
    /\ home.mounted
    /\ home.timeout
    /\ home' = [home EXCEPT !.stocks = MockStocks, !.loading = FALSE, !.timeout = FALSE]

LeaveHome ==
    /\ home.mounted
    /\ home' = NotMounted

(* ------------------------------------------------------------------ *)
(* The pages of the dashboard, one on screen at a time                 *)
(* ------------------------------------------------------------------ *)
NoPage ==
    /\ ~research.mounted /\ ~wechat.mounted /\ ~dashboard.mounted
    /\ ~market.mounted /\ ~home.mounted

OnlyWechat == UNCHANGED <<env, pc, req, calls, out, ans, res, toggle, research, dashboard, market, home>>
OnlyDashboard == UNCHANGED <<env, pc, req, calls, out, ans, res, toggle, research, wechat, market, home>>
OnlyMarket == UNCHANGED <<env, pc, req, calls, out, ans, res, toggle, research, wechat, dashboard, home>>
OnlyHome == UNCHANGED <<env, pc, req, calls, out, ans, res, toggle, research, wechat, dashboard, market>>

NextWechat ==
    \/ NoPage /\ MountWechat /\ OnlyWechat
    \/ (\E o \in WechatListOutcomes : FetchWechatListSettles(o)) /\ OnlyWechat
    \/ WechatShowsList /\ (\E i \in 1..Len(wechat.articles.a) : LoadArticle(i)) /\ OnlyWechat
    \/ wechat.mounted /\ (\E f \in wechat.loads : \E o \in LoadOutcomes(f.s[1]) :
                            LoadArticleSettles(f, o)) /\ OnlyWechat
    \/ CloseModal /\ OnlyWechat
    \/ LeaveWechat /\ OnlyWechat

NextDashboard ==
    \/ NoPage /\ MountDashboard /\ OnlyDashboard
    \/ (\E s \in Strategies : SetActiveStrategy(s)) /\ OnlyDashboard
    \/ dashboard.mounted /\ (\E f \in dashboard.fetches : \E o \in PortfolioOutcomes(f) :
                               FetchPortfolioSettles(f, o)) /\ OnlyDashboard
    \/ RetryDashboard /\ OnlyDashboard

NextMarket ==
    \/ NoPage /\ MountMarket /\ OnlyMarket
    \/ RefreshStocks /\ OnlyMarket
    \/ (\E o \in StockOutcomes : FetchStocksSettles(o)) /\ OnlyMarket
    \/ UnmountMarket /\ OnlyMarket
    \/ RetryMarket /\ OnlyMarket

NextHome ==
    \/ NoPage /\ MountHome /\ OnlyHome
    \/ HomeTimeout /\ OnlyHome
    \/ LeaveHome /\ OnlyHome

NextResearchList ==
    \E c \in Connections :
        \/ NoPage /\ MountResearch(c) /\ PageUnchanged
        \/ req[c] = ListRequest /\ BackendSettles(c)
        \/ FetchArticlesSettles(c) /\ PageUnchanged
        \/ FetchArticlesRejects(c) /\ PageUnchanged
        \/ Reload(c) /\ PageUnchanged

NextPages == NextWechat \/ NextDashboard \/ NextMarket \/ NextHome \/ NextResearchList

SpecPages == Init /\ [][NextPages]_vars

(* ------------------------------------------------------------------ *)
(* Properties                                                          *)
(* ------------------------------------------------------------------ *)
Done(c) == pc[c] = "done"
Answered(c) == Done(c) /\ ~res[c].threw
Response(c) == res[c].r

IsJsonObject(b) == b.k = "json" /\ b.v.t = "object"
HasMember(b, name) == IsJsonObject(b) /\ name \in DOMAIN b.v.f
Member(b, name) == b.v.f[name]

FilenameHandlers == {"wechat-article-proxy", "wechat-delete-proxy"}
FilenameMissing(rq) == rq.h \in FilenameHandlers /\ rq.param \in {Null, Str(<<>>)}

\* C1: a get-article or delete request whose filename parameter is absent or
\* empty is answered with HTTP 400 and a JSON body with an error member, and
\* no outbound backend call is made for it.
C1_MissingFilename400 ==
    \A c \in Connections :
        (pc[c] # "idle" /\ FilenameMissing(req[c])) =>
            /\ Answered(c)
            /\ Response(c).status = 400
            /\ HasMember(Response(c).body, "error")
            /\ calls[c] = 0
            /\ out[c] = NoOutbound
            /\ ans[c] = NoAnswer

C1_Witness ==
    \E c \in Connections :
        /\ Done(c)
        /\ req[c].h = "wechat-delete-proxy"
        /\ req[c].param = Str(<<>>)
        /\ Response(c).status = 400

\* C2 (as stated): when the outbound fetch rejects, every handler answers
\* HTTP 500 with a body that has an error member, and no exception escapes.
C2_RejectGives500WithError ==
    \A c \in Connections :
        (Done(c) /\ ans[c] = Rejected) =>
            /\ Answered(c)
            /\ Response(c).status = 500
            /\ HasMember(Response(c).body, "error")

\* C2 (amended): when the outbound fetch rejects, every handler answers HTTP
\* 500 and no exception escapes; the body is a JSON object with an error
\* member for every handler but the get-article proxy, whose body is the
\* plain text "Internal server error".
C2_RejectGives500 ==
    \A c \in Connections :
        (Done(c) /\ ans[c] = Rejected) =>
            /\ Answered(c)
            /\ Response(c).status = 500
            /\ IF req[c].h = "wechat-article-proxy"
               THEN Response(c).body = TextBody(<<"Internal server error">>)
               ELSE HasMember(Response(c).body, "error")

C2_Witness ==
    \E c \in Connections :
        /\ Done(c)
        /\ ans[c] = Rejected
        /\ req[c].h = "wechat-article-proxy"
        /\ Response(c).status = 500

\* The generate proxy has been answered by the backend with a non-2xx status
\* and a JSON body whose detail is a structured object with a string stderr.
GenerateStructuredError(c) ==
    /\ Done(c)
    /\ req[c].h = "wechat-generate-proxy"
    /\ ans[c].k = "response"
    /\ ~Ok(ans[c].status)
    /\ IsJsonObject(ans[c].body)
    /\ HasMember(ans[c].body, "detail")
    /\ Member(ans[c].body, "detail").t = "object"
    /\ "stderr" \in DOMAIN Member(ans[c].body, "detail").f
    /\ Member(ans[c].body, "detail").f["stderr"].t = "string"

BackendStderr(c) == Member(ans[c].body, "detail").f["stderr"].s

Sentence(prefix, x) == Str(<<prefix>> \o x \o <<". Please install it in research-tracker.">>)

\* "No module named 'X'" occurs in s at i, with X the k tokens after it.
Occurs(s, i, k) == MatchesAt(s, i, k)
FirstOccurrence(s, i, k) ==
    /\ Occurs(s, i, k)
    /\ \A j \in 1..(i - 1) : \A m \in 1..Len(s) : ~Occurs(s, j, m)

\* C3 (as stated): whenever detail.stderr contains "No module named 'X'", the
\* generate proxy answers with the backend's status and the error
\* "Missing dependency: X. Please install it in research-tracker."
C3_MissingDependencyAsStated ==
    \A c \in Connections :
        GenerateStructuredError(c) =>
            \A i \in 1..Len(BackendStderr(c)) : \A k \in 1..Len(BackendStderr(c)) :
                Occurs(BackendStderr(c), i, k) =>
                    /\ Answered(c)
                    /\ Response(c).status = ans[c].status
                    /\ HasMember(Response(c).body, "error")
                    /\ Member(Response(c).body, "error") =
                         Sentence("Missing dependency: ",
                                  SubSeq(BackendStderr(c), i + 1, i + k))

\* C3 (amended): whenever detail.stderr contains "ModuleNotFoundError" and its
\* first occurrence of "No module named '<word>'" names X, the generate proxy
\* answers with the backend's status and the error
\* "Missing Python dependency: X. Please install it in research-tracker."
C3_MissingPythonDependency ==
    \A c \in Connections :
        (GenerateStructuredError(c) /\ Includes(BackendStderr(c), MNFE)) =>
            \A i \in 1..Len(BackendStderr(c)) : \A k \in 1..Len(BackendStderr(c)) :
                FirstOccurrence(BackendStderr(c), i, k) =>
                    /\ Answered(c)
                    /\ Response(c).status = ans[c].status
                    /\ HasMember(Response(c).body, "error")
                    /\ Member(Response(c).body, "error") =
                         Sentence("Missing Python dependency: ",
                                  SubSeq(BackendStderr(c), i + 1, i + k))

\* The end-to-end scenario: 500 with stderr
\* "ModuleNotFoundError: No module named 'apscheduler'".
C3_Witness ==
    \E c \in Connections :
        /\ GenerateStructuredError(c)
        /\ ans[c].status = 500
        /\ Member(ans[c].body, "detail") =
             Obj([error |-> Lit("Workflow failed"), trace_id |-> Lit("a3b5c7d9"),
                  stderr |-> Str(<<MNFE, NMN, "apscheduler", Quote>>)])
        /\ Response(c).status = 500
        /\ Member(Response(c).body, "error") =
             Sentence("Missing Python dependency: ", <<"apscheduler">>)

(* ---- C4 ---- *)
BackendError(c) == Done(c) /\ ans[c].k = "response" /\ ~Ok(ans[c].status)
BackendSuccess(c) == Done(c) /\ ans[c].k = "response" /\ Ok(ans[c].status)

\* The handlers that read the backend's error body as JSON.
ErrorBodyReaders ==
    {"theme-search-proxy", "wechat-create-proxy", "generate-proxy-v1", "wechat-generate-proxy"}
DetailReaders == ErrorBodyReaders \ {"theme-search-proxy"}

\* Producing the error response throws: the error body is not JSON where
\* JSON is read, it is JSON null where a member of it is read, or
\* (wechat-generate-proxy) detail.stderr is truthy and no string.
ErrorResponseThrows(c) ==
    \/ req[c].h \in ErrorBodyReaders /\ ans[c].body.k # "json"
    \/ req[c].h \in DetailReaders /\ ans[c].body = JsonBody(Null)
    \/ /\ req[c].h = "wechat-generate-proxy"
       /\ HasMember(ans[c].body, "detail")
       /\ Member(ans[c].body, "detail").t = "object"
       /\ "stderr" \in DOMAIN Member(ans[c].body, "detail").f
       /\ Member(ans[c].body, "detail").f["stderr"] \in {Num(1), Bool(TRUE)}

\* C4 (as stated): for every handler and every backend response with a
\* non-2xx status, whatever its body, the proxy's status is the backend's.
C4_StatusForwardedAsStated ==
    \A c \in Connections :
        BackendError(c) => Answered(c) /\ Response(c).status = ans[c].status

\* C4 (what the handlers do): for every handler and every backend response
\* with a 4xx or 5xx status, the proxy's status is the backend's status,
\* unless producing the error response throws, and then it is 500.
C4_StatusForwarded ==
    \A c \in Connections :
        BackendError(c) =>
            /\ Answered(c)
            /\ Response(c).status = IF ErrorResponseThrows(c) THEN 500 ELSE ans[c].status

C4_Witness ==
    \E c \in Connections :
        /\ BackendError(c)
        /\ req[c].h = "wechat-delete-proxy"
        /\ ans[c] = Responded(404, TextBody(<<"<html>article</html>">>))
        /\ Response(c).status = 404

(* ---- C5 ---- *)
ConnectMessage == "Failed to connect to API server. Please ensure the backend is running."

\* C5 (as stated): on transport failure every handler returns HTTP 500 with
\* the JSON body {error: "Failed to connect to API server..."}, the same text
\* whichever handler failed.
C5_SameConnectErrorAsStated ==
    \A c \in Connections :
        (Done(c) /\ ans[c] = Rejected) =>
            /\ Answered(c)
            /\ Response(c).status = 500
            /\ HasMember(Response(c).body, "error")
            /\ Member(Response(c).body, "error") = Lit(ConnectMessage)

\* The body each handler gives on transport failure.
TransportFailureBody(h) ==
    CASE h = "wechat-generate-proxy" -> JsonBody(Obj([error |-> Lit(ConnectMessage)]))
      [] h = "theme-search-proxy" ->
            JsonBody(Obj([success |-> Bool(FALSE),
                          error |-> Lit("Failed to connect to backend API"),
                          detail |-> Lit(FetchFailed)]))
      [] h = "wechat-article-proxy" -> TextBody(<<"Internal server error">>)
      [] OTHER -> JsonBody(Obj([error |-> Lit("Internal server error")]))

\* C5 (amended): on transport failure every handler returns HTTP 500 with a
\* fixed body that depends on the handler alone: the "Failed to connect to
\* API server..." error for wechat-generate-proxy, {success: false, error:
\* "Failed to connect to backend API", detail} for theme-search-proxy, the
\* text "Internal server error" for wechat-article-proxy and {error:
\* "Internal server error"} for the others.
C5_TransportFailureBody ==
    \A c \in Connections :
        (Done(c) /\ ans[c] = Rejected) =>
            /\ Answered(c)
            /\ Response(c).status = 500
            /\ Response(c).body = TransportFailureBody(req[c].h)

C5_Witness ==
    \E c \in Connections :
        /\ Done(c)
        /\ ans[c] = Rejected
        /\ req[c].h = "wechat-generate-proxy"
        /\ Member(Response(c).body, "error") = Lit(ConnectMessage)

(* ---- C6 ---- *)
BodyReaders == {"theme-search-proxy", "wechat-create-proxy"}
JsonHandlers == Handlers \ {"wechat-article-proxy"}

\* The request that is being handled has failed: a required parameter is
\* missing, the browser's body does not parse, the fetch was rejected, the
\* backend answered non-2xx, or its 2xx body does not parse where JSON is read.
RequestParseFailure(c) == req[c].h \in BodyReaders /\ req[c].body.k # "json"
AttemptFailed(c) ==
    \/ ans[c] = Rejected
    \/ ans[c].k = "response" /\ ~Ok(ans[c].status)
    \/ ans[c].k = "response" /\ req[c].h \in JsonHandlers /\ ans[c].body.k # "json"
Failure(c) ==
    Done(c) /\ (FilenameMissing(req[c]) \/ RequestParseFailure(c) \/ AttemptFailed(c))

ErrorEnvelope(b) ==
    /\ HasMember(b, "error")
    /\ DOMAIN b.v.f \subseteq {"error", "detail", "status"}

\* C6 (as stated): every failure of every handler reaches the browser as a
\* JSON body with an error member (of the shape {error, detail?, status?}),
\* never as a non-JSON body and never as a success response.
C6_FailureEnvelopeAsStated ==
    \A c \in Connections :
        Failure(c) =>
            /\ Answered(c)
            /\ ~Ok(Response(c).status)
            /\ HasMember(Response(c).body, "error")

\* C6 (amended): every failure of every handler reaches the browser as a
\* response with a 4xx or 5xx status, never as a success response and never as
\* an escaped exception.  Its body is a JSON object {error, detail?, status?},
\* except that wechat-article-proxy answers a backend failure with plain text,
\* and theme-search-proxy relays the backend's JSON body as it is on a non-2xx
\* answer and adds success: false to {error, detail} otherwise.
C6_FailureReported ==
    \A c \in Connections :
        Failure(c) =>
            /\ Answered(c)
            /\ Response(c).status >= 400
            /\ CASE req[c].h = "wechat-article-proxy" /\ ~FilenameMissing(req[c]) ->
                        /\ Response(c).ctype = "text/plain"
                        /\ Response(c).body.k = "text"
                 [] req[c].h = "theme-search-proxy" ->
                        IF ans[c].k = "response" /\ ans[c].body.k = "json"
                        THEN Response(c).body = ans[c].body
                        ELSE /\ HasMember(Response(c).body, "error")
                             /\ DOMAIN Response(c).body.v.f = {"success", "error", "detail"}
                 [] OTHER -> ErrorEnvelope(Response(c).body)

C6_Witness ==
    \E c \in Connections :
        /\ Failure(c)
        /\ req[c].h = "wechat-article-proxy"
        /\ ans[c] = Responded(404, JsonBody(Obj([detail |-> Lit("Article not found")])))
        /\ Response(c) = NextResponseText(<<"Article not found">>, 404)

(* ---- C7 ---- *)
\* C7: for a non-empty filename and a 2xx backend answer with body H, the
\* get-article proxy answers 200 with Content-Type text/html and body H.
C7_ArticleRelayed ==
    \A c \in Connections :
        (BackendSuccess(c) /\ req[c].h = "wechat-article-proxy") =>
            /\ Answered(c)
            /\ Response(c).status = 200
            /\ Response(c).ctype = "text/html"
            /\ Response(c).body = ans[c].body

C7_Witness ==
    \E c \in Connections :
        /\ BackendSuccess(c)
        /\ req[c].h = "wechat-article-proxy"
        /\ req[c].param = Lit("wechat_20251212.html")
        /\ ans[c] = Responded(201, TextBody(<<"<html>article</html>">>))
        /\ Response(c).body = TextBody(<<"<html>article</html>">>)

(* ---- C8 ---- *)
\* The handler can read the backend's body: any text for the article, JSON
\* for the others.
BodyReadable(c) == req[c].h = "wechat-article-proxy" \/ ans[c].body.k = "json"

C9_ListUnchanged ==
    \A c \in Connections :
        (BackendSuccess(c) /\ req[c].h = "wechat-list-proxy" /\ IsJsonObject(ans[c].body)) =>
            /\ Answered(c)
            /\ Response(c).status = 200
            /\ Response(c).ctype = "application/json"
            /\ Response(c).body = ans[c].body

C9_Witness ==
    \E c \in Connections :
        /\ BackendSuccess(c)
        /\ req[c].h = "wechat-list-proxy"
        /\ HasMember(ans[c].body, "articles")
        /\ Len(Member(ans[c].body, "articles").a) = 2
        /\ Member(ans[c].body, "articles").a[1] # Member(ans[c].body, "articles").a[2]
        /\ Response(c).body = ans[c].body

(* ---- C10 ---- *)
\* C10: a handler issues at most one outbound request for one browser
\* request, and a failed attempt is reported to the browser as it is: an error
\* response for that attempt, with no second attempt.
C10_NoRetry ==
    \A c \in Connections :
        /\ calls[c] <= 1
        /\ pc[c] = "fetching" => calls[c] = 1 /\ ans[c] = NoAnswer
        /\ (Done(c) /\ AttemptFailed(c)) =>
              /\ calls[c] = 1
              /\ Answered(c)
              /\ ~Ok(Response(c).status)

C10_Witness ==
    \E c \in Connections :
        /\ Done(c)
        /\ req[c].h = "wechat-delete-proxy"
        /\ ans[c] = Rejected
        /\ calls[c] = 1
        /\ Response(c).status = 500

(* ---- C14 ---- *)
\* The backend's error detail as the handlers read it (error.detail).
BackendDetail(c) == Prop(Json(ans[c].body), "detail")

\* The backend answered non-2xx with a JSON object whose detail is a string,
\* a structured object, or absent.
DetailAsDocumented(c) ==
    /\ BackendError(c)
    /\ IsJsonObject(ans[c].body)
    /\ BackendDetail(c).t \in {"string", "object", "undefined"}

\* C14 (as stated): in every error response body built by a proxy handler
\* the error member is a string, whether the backend's detail was a string, a
\* structured object, or absent.
C14_ErrorIsString ==
    \A c \in Connections :
        (/\ Answered(c)
         /\ ~Ok(Response(c).status)
         /\ HasMember(Response(c).body, "error")
         /\ ans[c].k = "response" => DetailAsDocumented(c)) =>
            Member(Response(c).body, "error").t = "string"

(* ---- C16 ---- *)
\* C16 (as stated): the host and port of every handler's outbound request are
\* API_HOST and API_PORT when those are set, the default host when API_HOST is
\* unset.
C16_ConfiguredAddress ==
    \A c \in Connections :
        out[c] # NoOutbound =>
            /\ out[c].host = ApiHost(env)
            /\ Truthy(env.API_PORT) => out[c].port = ToStr(env.API_PORT)

(* ---- C17 ---- *)
\* The interface table: method, backend path and body per operation.
Forwarded(method, path, body) == [method |-> method, path |-> path, body |-> body]
InterfaceTable(rq) ==
    CASE rq.h = "wechat-list-proxy" ->
            Forwarded("GET", <<"/api/research/wechat/list">>, NoBody)
      [] rq.h = "wechat-article-proxy" ->
            Forwarded("GET", <<"/api/research/wechat/">> \o rq.param.s, NoBody)
      [] rq.h = "wechat-delete-proxy" ->
            Forwarded("DELETE", <<"/api/research/wechat/">> \o rq.param.s, NoBody)
      [] rq.h = "wechat-create-proxy" ->
            Forwarded("POST", <<"/api/research/wechat/create">>, rq.body)
      [] rq.h \in {"generate-proxy-v1", "wechat-generate-proxy"} ->
            Forwarded("POST", <<"/api/research/wechat/generate">>, NoBody)
      [] rq.h = "theme-search-proxy" ->
            Forwarded("POST", <<"/api/research/search/theme">>, rq.body)
      [] rq.h = "market-proxy" ->
            Forwarded("GET", <<"/api/market/quotes?symbols=">> \o rq.param.s, NoBody)

\* The operations of the interface table; quotes with the symbols requested.
InTable(rq) ==
    /\ rq.h \in Handlers \ {"papers-proxy"}
    /\ rq.h = "market-proxy" => Truthy(rq.param)

\* C17: each handler's outbound request has the method and the backend path of
\* the interface table, create and theme search carrying the browser's JSON
\* body, quotes carrying the requested symbols.
C17_InterfaceTable ==
    \A c \in Connections :
        (out[c] # NoOutbound /\ InTable(req[c])) =>
            Forwarded(out[c].method, out[c].path, out[c].body) = InterfaceTable(req[c])

C17_Witness ==
    \E c \in Connections :
        /\ pc[c] = "fetching"
        /\ req[c].h = "wechat-delete-proxy"
        /\ out[c].method = "DELETE"
        /\ out[c].path = <<"/api/research/wechat/", "wechat_20251212.html">>

(* ---- C18 ---- *)
MissingPrefix == "Missing Python dependency: "
IsMissingDependencySentence(v) == v.t = "string" /\ v.s # <<>> /\ Head(v.s) = MissingPrefix

\* C18 (as stated): whenever the generate proxy's error is the
\* missing-dependency sentence, the module it names is the word captured from
\* an occurrence of "No module named '<module>'" in detail.stderr.
C18_ModuleNameCaptured ==
    \A c \in Connections :
        (/\ Answered(c)
         /\ req[c].h = "wechat-generate-proxy"
         /\ HasMember(Response(c).body, "error")
         /\ IsMissingDependencySentence(Member(Response(c).body, "error"))) =>
            /\ GenerateStructuredError(c)
            /\ \E i \in 1..Len(BackendStderr(c)) : \E k \in 1..Len(BackendStderr(c)) :
                  /\ Occurs(BackendStderr(c), i, k)
                  /\ Member(Response(c).body, "error") =
                       Sentence(MissingPrefix, SubSeq(BackendStderr(c), i + 1, i + k))

(* ---- C19 ---- *)
\* The generate proxy has been answered non-2xx with a structured detail whose
\* stderr is a string or absent.
GenerateStructured(c) ==
    /\ BackendError(c)
    /\ req[c].h = "wechat-generate-proxy"
    /\ IsJsonObject(ans[c].body)
    /\ BackendDetail(c).t = "object"
    /\ Prop(BackendDetail(c), "stderr").t \in {"string", "undefined"}

\* The module-not-found signature: stderr mentions ModuleNotFoundError.
Signature(c) ==
    /\ Prop(BackendDetail(c), "stderr").t = "string"
    /\ Includes(Prop(BackendDetail(c), "stderr").s, MNFE)

TraceIdPresent(c) == Prop(BackendDetail(c), "trace_id").t = "string"
TraceIdOpening == " (Trace ID: "

\* detail.error, or "Failed to generate paper" when it is missing.
BaseMessage(c) ==
    IF "error" \in DOMAIN BackendDetail(c).f
    THEN BackendDetail(c).f["error"].s
    ELSE <<"Failed to generate paper">>

GenerateHandlers == {"generate-proxy-v1", "wechat-generate-proxy"}

\* A generate proxy has been answered non-2xx with a JSON object.
GenerateError(c) ==
    /\ BackendError(c)
    /\ req[c].h \in GenerateHandlers
    /\ IsJsonObject(ans[c].body)

\* C20 (as stated): when detail is a plain string, error is that string
\* verbatim; when detail is absent, error is "Failed to generate paper".
C20_StringVerbatimAsStated ==
    \A c \in Connections :
        GenerateError(c) =>
            /\ BackendDetail(c).t = "string" =>
                  /\ Answered(c)
                  /\ Member(Response(c).body, "error") = BackendDetail(c)
            /\ BackendDetail(c).t = "undefined" =>
                  /\ Answered(c)
                  /\ Member(Response(c).body, "error") = Lit("Failed to generate paper")

\* C20 (amended): when detail is a non-empty plain string, error is that
\* string verbatim; when detail is absent, null or the empty string, error is
\* "Failed to generate paper".
C20_StringVerbatim ==
    \A c \in Connections :
        GenerateError(c) =>
            /\ (BackendDetail(c).t = "string" /\ BackendDetail(c).s # <<>>) =>
                  /\ Answered(c)
                  /\ Response(c).status = ans[c].status
                  /\ Member(Response(c).body, "error") = BackendDetail(c)
            /\ BackendDetail(c) \in {Undef, Null, Str(<<>>)} =>
                  /\ Answered(c)
                  /\ Response(c).status = ans[c].status
                  /\ Member(Response(c).body, "error") = Lit("Failed to generate paper")

C20_Witness ==
    \E c \in Connections :
        /\ GenerateError(c)
        /\ req[c].h = "wechat-generate-proxy"
        /\ ans[c] = Responded(404, JsonBody(Obj([detail |-> Lit("Article not found")])))
        /\ Member(Response(c).body, "error") = Lit("Article not found")

(* ---- C13 ---- *)
\* C13 (as stated, for LivePortfolioToggle): at most one of the loading
\* indicator, the error panel and the loaded data is shown; in particular the
\* error panel and the loaded data are never shown together.
C13_OneUiState ==
    /\ ~(ToggleShowsError /\ ToggleShowsData)
    /\ ~(ToggleShowsLoading /\ ToggleShowsError)
    /\ ~(ToggleShowsLoading /\ ToggleShowsData)

(* ---- C15 ---- *)
\* The generate proxy has been answered non-2xx with a structured detail that
\* has a trace_id and a stderr, and the page's call of it settles.
FailedGenerateShown(c) ==
    /\ GenerateStructuredError(c)
    /\ TraceIdPresent(c)
    /\ GeneratePaperSettles(c)

\* "ModuleNotFoundError: No module named 'X'" stands in s at i, X being k
\* tokens long and the first module so named.
MissingModuleAt(s, i, k) ==
    /\ FirstOccurrence(s, i, k)
    /\ i > 1
    /\ s[i - 1] = MNFE

LineBreaks(s) == {i \in 1..Len(s) : s[i] = NL}
\* The text before the n-th line break of s, all of s when it has fewer.
FirstLines(s, n) ==
    IF Cardinality(LineBreaks(s)) < n THEN s
    ELSE LET p == CHOOSE x \in LineBreaks(s) :
                     Cardinality({y \in LineBreaks(s) : y < x}) = n - 1
         IN  SubSeq(s, 1, p - 1)

\* The dialog up to the stderr lines, and the suggestion after them.
DialogHead(c, i, k) ==
    <<"Failed to generate paper:", NL, NL,
      "Missing Python dependency: ">> \o SubSeq(BackendStderr(c), i + 1, i + k)
    \o <<". Please install it in research-tracker.", NL, NL,
         "Trace ID: ">> \o Prop(BackendDetail(c), "trace_id").s
    \o <<NL, "Check the backend logs for more details.", NL, NL, "Error details:", NL>>
DialogSuggestion(c) ==
    IF "suggestion" \in DOMAIN BackendDetail(c).f
    THEN <<NL, NL, "Suggestion: ">> \o BackendDetail(c).f["suggestion"].s
    ELSE <<>>

\* C15 (as stated): the dialog of such a failed generate is "Failed to
\* generate paper:", the missing-dependency message naming X, the trace id
\* line, "Error details:" with the lines of stderr, and the suggestion if any.
C15_DialogAsStated ==
    [][\A c \in Connections :
          FailedGenerateShown(c) =>
              \A i, k \in 1..Len(BackendStderr(c)) :
                  MissingModuleAt(BackendStderr(c), i, k) =>
                      research'.alert =
                          Str(DialogHead(c, i, k) \o BackendStderr(c)
                              \o DialogSuggestion(c))]_vars

\* C15 (amended): as above, "Error details:" being followed by the first five
\* lines of stderr only, and by "... (see backend logs for full error)" when
\* stderr has more than five lines.
C15_Dialog ==
    [][\A c \in Connections :
          FailedGenerateShown(c) =>
              \A i, k \in 1..Len(BackendStderr(c)) :
                  MissingModuleAt(BackendStderr(c), i, k) =>
                      research'.alert =
                          Str(DialogHead(c, i, k)
                              \o FirstLines(BackendStderr(c), 5)
                              \o (IF Cardinality(LineBreaks(BackendStderr(c))) >= 5
                                  THEN <<NL, "... (see backend logs for full error)">>
                                  ELSE <<>>)
                              \o DialogSuggestion(c))]_vars

\* A six-line stderr whose last line is the ModuleNotFoundError.
C15_Witness ==
    /\ research.mounted
    /\ research.alert =
         Str(<<"Failed to generate paper:", NL, NL,
               "Missing Python dependency: ", "apscheduler",
               ". Please install it in research-tracker.", NL, NL,
               "Trace ID: ", "a3b5c7d9", NL,
               "Check the backend logs for more details.", NL, NL,
               "Error details:", NL,
               "Traceback", NL, "Traceback", NL, "Traceback", NL, "Traceback", NL,
               "Traceback", NL,
               "... (see backend logs for full error)", NL, NL,
               "Suggestion: ", "pip install apscheduler">>)

(* ---- C11 ---- *)
\* What a request and the settlement of its own fetch determine.
Determined(rq, o, a, r) ==
    IF HandlerEarly(rq).early
    THEN o = NoOutbound /\ a = NoAnswer /\ r = HandlerEarly(rq).res
    ELSE /\ o = HandlerFetch(rq, env)
         /\ IF a = NoAnswer THEN r = NoResult ELSE r = HandlerSettle(rq, a)

\* C11: under any interleaving of the requests handled concurrently, the
\* outbound call and the response of each request are those determined by
\* that request and by the settlement of its own outbound call; what the
\* other requests ask and are answered has no part in them.
C11_NoSharedState ==
    \A c \in DOMAIN pc :
        /\ pc[c] = "idle" =>
              req[c] = NoRequest /\ out[c] = NoOutbound /\ ans[c] = NoAnswer
              /\ res[c] = NoResult
        /\ pc[c] # "idle" => Determined(req[c], out[c], ans[c], res[c])
        /\ pc[c] = "fetching" => ans[c] = NoAnswer
        /\ (pc[c] = "done" /\ ~HandlerEarly(req[c]).early) => ans[c] # NoAnswer

\* Two requests under way at once, to different handlers and with different
\* answers of the backend.
C11_Witness ==
    /\ DOMAIN pc = Tabs
    /\ pc["tab1"] = "done" /\ pc["tab2"] = "done"
    /\ req["tab1"].h = "wechat-delete-proxy"
    /\ req["tab2"].h = "wechat-list-proxy"
    /\ ans["tab1"] = Responded(404, JsonBody(Obj([detail |-> Lit("Article not found")])))
    /\ ans["tab2"] = Responded(200, JsonBody(Obj([articles |-> Arr(<<>>)])))
    /\ res["tab1"].r = NextResponseJson(ErrorBody("Failed to delete article"), 404)
    /\ res["tab2"].r = NextResponseJson(Obj([articles |-> Arr(<<>>)]), 200)

(* ---- C12 ---- *)
\* c is a list-articles call that the backend has answered.
ListCallAnswered(c) ==
    pc[c] = "done" /\ req[c].h = "wechat-list-proxy" /\ ans[c].k = "response"

GenerateFailureWithDetail(c) ==
    /\ BackendError(c)
    /\ req[c].h = "wechat-generate-proxy"
    /\ IsJsonObject(ans[c].body)
    /\ \/ BackendDetail(c).t = "string"
       \/ /\ BackendDetail(c).t = "object"
          /\ Prop(BackendDetail(c), "stderr").t \in {"string", "undefined"}

\* C21: on a backend failure the generate proxy's body carries detail equal
\* to the backend's detail, every member of it kept, and a status member
\* equal to the HTTP status, which is the backend's.
C21_DetailPreserved ==
    \A c \in Connections :
        GenerateFailureWithDetail(c) =>
            /\ Answered(c)
            /\ Response(c).status = ans[c].status
            /\ HasMember(Response(c).body, "detail")
            /\ Member(Response(c).body, "detail") = BackendDetail(c)
            /\ HasMember(Response(c).body, "status")
            /\ Member(Response(c).body, "status") = Num(Response(c).status)

C21_Witness ==
    \E c \in Connections :
        /\ GenerateFailureWithDetail(c)
        /\ ans[c] = Responded(500, JsonBody(Obj([detail |-> FullDetail])))
        /\ Member(Response(c).body, "detail") = FullDetail
        /\ Member(Response(c).body, "status") = Num(500)

(* ---- C22 ---- *)
\* A parse failure inside the handler: the browser's body is no JSON where
\* it is read, or the backend's body is no JSON where the handler reads JSON
\* (on success by every handler but the article proxy, on error by those
\* that read the error body).
ParseFailure(c) ==
    /\ Done(c)
    /\ \/ RequestParseFailure(c)
       \/ /\ ans[c].k = "response"
          /\ ans[c].body.k # "json"
          /\ IF Ok(ans[c].status) THEN req[c].h \in JsonHandlers
                                  ELSE req[c].h \in ErrorBodyReaders

\* C22 (as stated): a parse failure produces the response the handler gives
\* for a transport failure, HTTP 500 with the same body, and no exception
\* escapes.
C22_ParseFailureAsStated ==
    \A c \in Connections :
        ParseFailure(c) =>
            /\ Answered(c)
            /\ Response(c).status = 500
            /\ Response(c).body = TransportFailureBody(req[c].h)

\* C22 (amended): as above, except that in theme-search-proxy's body the
\* detail member is the text of the exception, which for a parse failure is
\* not the text it has for a transport failure; success and error are the same.
C22_ParseFailure ==
    \A c \in Connections :
        ParseFailure(c) =>
            /\ Answered(c)
            /\ Response(c).status = 500
            /\ IF req[c].h = "theme-search-proxy"
               THEN Response(c).body =
                        JsonBody(Obj([success |-> Bool(FALSE),
                                      error |-> Lit("Failed to connect to backend API"),
                                      detail |-> Lit(NotJson)]))
               ELSE Response(c).body = TransportFailureBody(req[c].h)

C22_Witness ==
    \E c \in Connections :
        /\ ParseFailure(c)
        /\ req[c].h = "wechat-create-proxy"
        /\ req[c].body = TextBody(<<"not json">>)
        /\ calls[c] = 0
        /\ Response(c) = InternalServerError

(* ---- C30 ---- *)
\* The path of the resource that fetch addresses for a URL whose path is the
\* token sequence p: the URL parser ends the path at '?' or '#' and resolves
\* every '..' segment against the segments before it.
RECURSIVE ResolvePath(_, _, _)
ResolvePath(p, i, segments) ==
    IF i > Len(p) \/ p[i] \in {"?", "#"} THEN segments
    ELSE IF p[i] = "/api/research/wechat/"
         THEN ResolvePath(p, i + 1, segments \o <<"api", "research", "wechat">>)
    ELSE IF p[i] = "/" THEN ResolvePath(p, i + 1, segments)
    ELSE IF p[i] = "../"
         THEN ResolvePath(p, i + 1,
                          IF segments = <<>> THEN <<>>
                          ELSE SubSeq(segments, 1, Len(segments) - 1))
    ELSE ResolvePath(p, i + 1, Append(segments, p[i]))

UnderWechat(segments) ==
    Len(segments) >= 3 /\ SubSeq(segments, 1, 3) = <<"api", "research", "wechat">>

\* C30 (as stated): for every non-empty filename, the resource that the
\* get-article and the delete proxy address lies under /api/research/wechat/.
C30_PathConfined ==
    \A c \in Connections :
        (out[c] # NoOutbound /\ req[c].h \in FilenameHandlers) =>
            UnderWechat(ResolvePath(out[c].path, 1, <<>>))

(* ------------------------------------------------------------------ *)
(* C24                                                                 *)
(* ------------------------------------------------------------------ *)
\* C24: in LivePortfolioToggle `loading` is true exactly while at least one
\* live-portfolio fetch is under way, whatever the sequence of toggles.
C24_LoadingWhileFetching ==
    toggle.mounted => (toggle.loading <=> toggle.fetches > 0)

\* The second half of C24: once liveData is set, no step of the component
\* starts another fetch.
C24_NoFetchAfterData ==
    [][(toggle.mounted /\ Truthy(toggle.liveData) /\ toggle'.mounted)
          => toggle'.fetches <= toggle.fetches]_vars

(* ------------------------------------------------------------------ *)
(* C23                                                                 *)
(* ------------------------------------------------------------------ *)
DisplayedFilenames ==
    {Prop(research.articles.a[i], "filename") : i \in 1..Len(research.articles.a)}

\* C23: after any interleaving of deletes on the research page, the list
\* holds no article whose delete succeeded.
C23_DeletedStayDeleted ==
    (research.mounted /\ research.articles.t = "array")
        => DisplayedFilenames \cap research.deleted = {}

(* ------------------------------------------------------------------ *)
(* C27                                                                 *)
(* ------------------------------------------------------------------ *)
GeneratesUnderWay == {c \in DOMAIN pc : pc[c] # "idle" /\ req[c] = GenerateRequest}
Generating == research.mounted /\ research.generating

\* C27: at most one generate request of the research page is under way at a
\* time, `generating` is true while it is, and it returns to false afterwards
\* whatever the outcome.
C27_GenerateOnce ==
    /\ [](Cardinality(GeneratesUnderWay) <= 1)
    /\ [](Generating => GeneratesUnderWay # {})
    /\ (Generating ~> ~Generating)

C27_Witness ==
    /\ research.mounted /\ ~research.generating
    /\ research.alert = Str(ConnectAlert)
    /\ \E c \in DOMAIN pc : IsDeleteRequest(req[c]) /\ pc[c] = "fetching"

(* ------------------------------------------------------------------ *)
(* C25                                                                 *)
(* ------------------------------------------------------------------ *)
DashboardShowsPortfolio == DashboardShowsContent /\ dashboard.portfolio # Null

C26_ErrorStays ==
    [][/\ (MarketShowsError /\ market'.mounted) => MarketShowsError'
       /\ (~market.mounted /\ ~market'.mounted) => market'.issued = market.issued]_vars

C26_Witness ==
    /\ MarketShowsError
    /\ market.stocks # Arr(<<>>)
    /\ market.issued = 1 + MaxRefreshes
    /\ market.fetches = 0

\* A page that was left after its refreshes, for the second half of C26.
C26_GoneWitness == ~market.mounted /\ market.issued > 1 /\ NoPage

(* ------------------------------------------------------------------ *)
(* C28                                                                 *)
(* ------------------------------------------------------------------ *)
ListFetchUnderWay == \E c \in DOMAIN pc : pc[c] # "idle" /\ req[c] = ListRequest

\* C28: a page shows its spinner only while its first fetch (on the home page,
\* its timeout) is still pending: once that has settled, in whatever way,
\* loading is false.
C28_LoadingEnds ==
    /\ ResearchShowsLoading => ListFetchUnderWay
    /\ DashboardShowsLoading => dashboard.fetches # {}
    /\ MarketShowsLoading => market.fetches = market.issued
    /\ (wechat.mounted /\ wechat.loading) => wechat.listPending
    /\ (home.mounted /\ home.loading) => home.timeout

C28_Witness ==
    /\ wechat.mounted /\ ~wechat.loading /\ ~wechat.listPending
    /\ wechat.articles = Arr(<<>>)

(* ------------------------------------------------------------------ *)
(* C29                                                                 *)
(* ------------------------------------------------------------------ *)
BodiesOf(f) == {WechatHtml(f.s[1], e) : e \in Editions}

ModalConsistent(w) ==
    IF w.selectedArticle = Null
    THEN w.articleContent = Str(<<>>)
    ELSE w.articleContent \in BodiesOf(w.selectedArticle)

LoadFails ==
    \E f \in wechat.loads : \E o \in {PageNotOk, PageThrows} : LoadArticleSettles(f, o)

\* C29: on the wechat page articleContent is the body fetched for
\* selectedArticle, and the empty string when selectedArticle is null; a load
\* that fails changes neither.
C29_ContentOfSelected ==
    /\ [](wechat.mounted => ModalConsistent(wechat))
    /\ [][(wechat.mounted /\ LoadFails) =>
            /\ wechat'.selectedArticle = wechat.selectedArticle
            /\ wechat'.articleContent = wechat.articleContent]_vars

C29_Witness ==
    /\ WechatShowsModal
    /\ wechat.selectedArticle = Lit("wechat_20251213.html")
    /\ wechat.loads = {Lit("wechat_20251212.html")}

====
